---- MODULE Spec2Model ----
(***************************************************************************)
(* Verification model of papers3-zotero:                                   *)
(*   - src/fix_zotero_keys.py   ZoteroKeyFixer (key validation and repair) *)
(*   - src/papers3_to_zotero.py Papers3ToZoteroMigrator (import run)       *)
(* Keys are sequences of one-character strings.  The destination store is  *)
(* a record of tables; a table with an integer primary key is a sequence   *)
(* whose index is the row id (sqlite assigns max(rowid)+1, rows are never  *)
(* deleted by these programs).                                             *)
(***************************************************************************)
EXTENDS Integers, Sequences, FiniteSets, TLC

VARIABLES
    \* ---- is_valid_key applied to one token (SpecKey)
    key_token,      \* the token handed to is_valid_key
    key_result,     \* "unchecked", or the BOOLEAN is_valid_key returned, as a string
    \* ---- _convert_publication_date applied to one string (SpecDate)
    date_string,    \* the string handed to _convert_publication_date
    date_result,    \* <<"unconverted">>, or what _convert_publication_date returned
    \* ---- two importers on one destination file (SpecRace)
    resolver,       \* per importer: position, connection state, caches, pending keys
    journal_mode,   \* the journal mode of the destination file: "delete" or "wal"
    \* ---- ZoteroKeyFixer (SpecFix)
    fixer,          \* the fields of the ZoteroKeyFixer object and the position of run()
    fixer_db,       \* the committed content of the sqlite file the fixer works on
    fixer_tx,       \* the content seen through the fixer's connection (uncommitted)
    fixer_db0,      \* history: fixer_db when run() started
    \* ---- Papers3ToZoteroMigrator (Spec, SpecOrg)
    args,           \* constructor arguments: test_mode, limit, skip_attachments,
                    \* files_only, files (files_dir and files_target_dir given)
    catalog,        \* the JSON catalog directory: publications and collections files
    papers3_data,   \* self.papers3_data['publications'] once loaded
    collections_data, \* self.collections_data['collections'] once loaded
    zotero_db,      \* the committed content of the destination sqlite file
    zotero_tx,      \* the content seen through self.zotero_conn (uncommitted)
    zotero_db0,     \* history: zotero_db when migrate() started
    conn,           \* self.zotero_conn: "none", "open", "closed"
    sql_log,        \* history: BEGIN / COMMIT / ROLLBACK issued on the connection
    collection_map, \* Papers3 UUID -> collectionID
    item_map,       \* Papers3 UUID -> itemID
    creator_map,    \* "first|last" -> creatorID
    tag_map,        \* tag name -> tagID
    stats,          \* self.stats
    source_fs,      \* the Papers3 Files directory: path -> content
    target_fs,      \* files under files_target_dir: path -> content
    target_dirs,    \* directories under files_target_dir
    target_fs0,     \* history: target_fs when migrate() started
    run,            \* position of migrate(): pc, loop indices, pending work, outcome
    earlier         \* history: what the run before this one ended with, <<>> if none

keyVars == <<key_token, key_result, date_string, date_result, resolver,
            journal_mode>>
fixVars == <<fixer, fixer_db, fixer_tx, fixer_db0>>
migVars == <<args, catalog, papers3_data, collections_data, zotero_db, zotero_tx,
             zotero_db0, conn, sql_log, collection_map, item_map, creator_map,
             tag_map, stats, source_fs, target_fs, target_dirs, target_fs0, run,
             earlier>>
vars == <<key_token, key_result, date_string, date_result, resolver,
          journal_mode, fixer, fixer_db, fixer_tx, fixer_db0,
          args, catalog, papers3_data, collections_data, zotero_db, zotero_tx,
          zotero_db0, conn, sql_log, collection_map, item_map, creator_map,
          tag_map, stats, source_fs, target_fs, target_dirs, target_fs0, run,
          earlier>>

\* the empty mapping (a Python dict with no entry)
EmptyMap == [x \in {} |-> 0]

\* _convert_publication_date has been handed nothing
DateIdle == date_string = <<>> /\ date_result = <<"unconverted">>

\* no pair of importers is running
RaceIdle == resolver = <<>> /\ journal_mode = "none"

\* no migrator has been constructed
MigratorIdle ==
    /\ args = <<>> /\ catalog = <<>> /\ papers3_data = <<>>
    /\ collections_data = <<>> /\ zotero_db = <<>> /\ zotero_tx = <<>>
    /\ zotero_db0 = <<>> /\ conn = "none" /\ sql_log = <<>>
    /\ collection_map = EmptyMap /\ item_map = EmptyMap
    /\ creator_map = EmptyMap /\ tag_map = EmptyMap /\ stats = <<>>
    /\ source_fs = EmptyMap /\ target_fs = EmptyMap /\ target_dirs = {}
    /\ target_fs0 = EmptyMap /\ run = [pc |-> "idle"] /\ earlier = <<>>

(***************************************************************************)
(* Bounds of the model                                                     *)
(***************************************************************************)
\* longest token handed to is_valid_key in SpecKey (one more than a key)
MaxTokenLen == 9
\* rows per table in the store the fixer is run on
FixRows == 2
\* longest list of publications in the catalog of an import run
MaxDocs == 2

(***************************************************************************)
(* Alphabets and tokens                                                    *)
(***************************************************************************)
ascii_uppercase ==
    {"A","B","C","D","E","F","G","H","I","J","K","L","M",
     "N","O","P","Q","R","S","T","U","V","W","X","Y","Z"}

digits == {"0","1","2","3","4","5","6","7","8","9"}

\* fix_zotero_keys.py:30  '23456789ABCDEFGHIJKLMNPQRSTUVWXYZ'
VALID_KEY_CHARS ==
    {"2","3","4","5","6","7","8","9",
     "A","B","C","D","E","F","G","H","I","J","K","L","M","N",
     "P","Q","R","S","T","U","V","W","X","Y","Z"}

\* fix_zotero_keys.py:11  "Excludes: 0, 1, L, O, Y (for visual clarity)"
DocumentedExcluded == {"0", "1", "L", "O", "Y"}

\* number of characters of a key in the fixer (len(key) != 8, range(8))
KeyLen == 8

\* SQL NULL in a key column (no character is a four-letter string)
NULL == <<"NULL">>

\* the token made of KeyLen copies of c, and the same with another last character
Rep(c) == [i \in 1..KeyLen |-> c]
RepEnd(c, d) == [Rep(c) EXCEPT ![KeyLen] = d]

\* fix_zotero_keys.py:70-84
is_valid_key(key) ==
    IF key = NULL \/ Len(key) = 0 \/ Len(key) # KeyLen
    THEN FALSE
    ELSE \A i \in 1..Len(key) : key[i] \in VALID_KEY_CHARS

(***************************************************************************)
(* SpecKey: is_valid_key as a pure function of its argument                *)
(***************************************************************************)
\* characters the tokens of SpecKey are made of: one valid, two the tool
\* documents as excluded (of which the code accepts "L")
KeyCheckChars == {"2", "L", "0"}

RECURSIVE TokensOfLen(_)
TokensOfLen(n) ==
    IF n = 0 THEN {<<>>}
    ELSE {Append(t, c) : t \in TokensOfLen(n - 1), c \in KeyCheckChars}

KeyCheckTokens == {NULL} \cup UNION {TokensOfLen(n) : n \in 0..MaxTokenLen}

BoolStr(b) == IF b THEN "True" ELSE "False"

FixerIdle ==
    /\ fixer = [pc |-> "idle"]
    /\ fixer_db = <<>>
    /\ fixer_tx = <<>>
    /\ fixer_db0 = <<>>

InitKey ==
    /\ key_token \in KeyCheckTokens
    /\ key_result = "unchecked"
    /\ DateIdle /\ RaceIdle
    /\ FixerIdle
    /\ MigratorIdle

CheckKey ==
    /\ key_result = "unchecked"
    /\ key_result' = BoolStr(is_valid_key(key_token))
    /\ UNCHANGED <<key_token, date_string, date_result, resolver, journal_mode,
                   fixVars, migVars>>

NextKey == CheckKey

SpecKey == InitKey /\ [][NextKey]_vars

(***************************************************************************)
(* ZoteroKeyFixer                                                          *)
(***************************************************************************)
\* keys found in the store before the fixer runs: NULL, a valid key, a key
\* with an excluded character, a key of the wrong length
StoreKeySamples == {NULL, Rep("A"), RepEnd("A", "0"), <<"A", "B", "C">>}

\* outcomes of ''.join(random.choice(...) for _ in range(8)) the model draws
KeyDraws ==
    {Rep("A"), Rep("B"), Rep("2"), RepEnd("A", "L"), RepEnd("B", "Y"),
     RepEnd("2", "Z"), RepEnd("A", "0"), RepEnd("B", "O")}

\* fix_zotero_keys.py:86-98: the key the while loop ends with is any key over
\* VALID_KEY_CHARS that is not in generated_keys
generate_valid_key(generated_keys) ==
    {key \in KeyDraws :
        /\ Len(key) = KeyLen
        /\ \A i \in 1..KeyLen : key[i] \in VALID_KEY_CHARS
        /\ key \notin generated_keys}

\* fix_zotero_keys.py:100-112: {row[0] for row in rows if row[0]}
get_existing_keys(table) ==
    {table[i].key : i \in {j \in 1..Len(table) :
                            table[j].key # NULL /\ Len(table[j].key) > 0}}

\* fix_zotero_keys.py:123-135 and 163-175: ids of the rows WHERE key IS NOT
\* NULL whose key is not valid
invalid_rows(table) ==
    {i \in 1..Len(table) : table[i].key # NULL /\ ~is_valid_key(table[i].key)}

\* the UPDATE setting the key alone
UPDATE_key_alone(table, id, new_key) ==
    [table EXCEPT ![id].key = new_key]

\* the UPDATE with its WHERE clause lost
UPDATE_key_everywhere(table, id, new_key) ==
    [i \in 1..Len(table) |->
        [key |-> new_key, version |-> table[i].version + 1, synced |-> 0]]

\* fix_zotero_keys.py:145-149 and 185-189:
\* UPDATE t SET key = ?, version = version + 1, synced = 0 WHERE id = ?
UPDATE_key(table, id, new_key) ==
    [table EXCEPT ![id] =
        [key |-> new_key, version |-> @.version + 1, synced |-> 0]]

\* ascending sequence of the elements of a finite set of integers (fetchall
\* returns the rows in rowid order)
RECURSIVE Ascending(_)
Ascending(S) ==
    IF S = {} THEN <<>>
    ELSE LET m == CHOOSE x \in S : \A y \in S : x <= y
         IN <<m>> \o Ascending(S \ {m})

FixRowSamples(i) ==
    {[key |-> k, version |-> i, synced |-> 1] : k \in StoreKeySamples}

FixTables ==
    {t \in [1..FixRows -> UNION {FixRowSamples(i) : i \in 1..FixRows}] :
        \A i \in 1..FixRows : t[i].version = i}

\* fix_zotero_keys.py:36-58
InitFix ==
    /\ key_token = NULL
    /\ key_result = "unchecked"
    /\ DateIdle /\ RaceIdle
    /\ MigratorIdle
    /\ \E c \in FixTables, it \in FixTables :
          fixer_db = [collections |-> c, items |-> it]
    /\ fixer_tx = fixer_db
    /\ fixer_db0 = fixer_db
    /\ \E d \in BOOLEAN :
          fixer = [pc |-> "connect",
                   dry_run |-> d,
                   conn |-> "none",
                   in_txn |-> FALSE,
                   pending |-> <<>>,
                   invalid_collection_keys |-> 0,
                   invalid_item_keys |-> 0,
                   fixed_collection_keys |-> 0,
                   fixed_item_keys |-> 0,
                   generated_keys |-> {},
                   returned |-> <<>>]

\* fix_zotero_keys.py:287-294: connect(), then BEGIN TRANSACTION unless dry_run
FixConnect ==
    /\ fixer.pc = "connect"
    /\ fixer' = [fixer EXCEPT !.conn = "open",
                              !.in_txn = ~fixer.dry_run,
                              !.pc = "scan_collections"]
    /\ UNCHANGED <<fixer_db, fixer_tx, fixer_db0, keyVars, migVars>>

\* fix_zotero_keys.py:119-135
ScanCollections ==
    /\ fixer.pc = "scan_collections"
    /\ LET bad == invalid_rows(fixer_tx.collections)
       IN fixer' = [fixer EXCEPT
                      !.generated_keys = @ \cup get_existing_keys(fixer_tx.collections),
                      !.pending = Ascending(bad),
                      !.invalid_collection_keys = @ + Cardinality(bad),
                      !.pc = "fix_collections"]
    /\ UNCHANGED <<fixer_db, fixer_tx, fixer_db0, keyVars, migVars>>

\* fix_zotero_keys.py:140-150: one iteration of the loop over invalid_collections
FixCollectionKey ==
    /\ fixer.pc = "fix_collections"
    /\ fixer.pending # <<>>
    /\ \E new_key \in generate_valid_key(fixer.generated_keys) :
          /\ fixer' = [fixer EXCEPT
                         !.generated_keys = @ \cup {new_key},
                         !.returned = Append(@, new_key),
                         !.pending = Tail(@),
                         !.fixed_collection_keys =
                             IF fixer.dry_run THEN @ ELSE @ + 1]
          /\ fixer_tx' =
               IF fixer.dry_run THEN fixer_tx
               ELSE [fixer_tx EXCEPT !.collections =
                        UPDATE_key(@, Head(fixer.pending), new_key)]
    /\ UNCHANGED <<fixer_db, fixer_db0, keyVars, migVars>>

\* fix_zotero_keys.py:137-152: the loop is over (or there was nothing to fix)
EndFixCollections ==
    /\ fixer.pc = "fix_collections"
    /\ fixer.pending = <<>>
    /\ fixer' = [fixer EXCEPT !.pc = "scan_items"]
    /\ UNCHANGED <<fixer_db, fixer_tx, fixer_db0, keyVars, migVars>>

\* fix_zotero_keys.py:159-175
ScanItems ==
    /\ fixer.pc = "scan_items"
    /\ LET bad == invalid_rows(fixer_tx.items)
       IN fixer' = [fixer EXCEPT
                      !.generated_keys = @ \cup get_existing_keys(fixer_tx.items),
                      !.pending = Ascending(bad),
                      !.invalid_item_keys = @ + Cardinality(bad),
                      !.pc = "fix_items"]
    /\ UNCHANGED <<fixer_db, fixer_tx, fixer_db0, keyVars, migVars>>

\* fix_zotero_keys.py:181-190: one iteration of the loop over invalid_items
FixItemKey ==
    /\ fixer.pc = "fix_items"
    /\ fixer.pending # <<>>
    /\ \E new_key \in generate_valid_key(fixer.generated_keys) :
          /\ fixer' = [fixer EXCEPT
                         !.generated_keys = @ \cup {new_key},
                         !.returned = Append(@, new_key),
                         !.pending = Tail(@),
                         !.fixed_item_keys =
                             IF fixer.dry_run THEN @ ELSE @ + 1]
          /\ fixer_tx' =
               IF fixer.dry_run THEN fixer_tx
               ELSE [fixer_tx EXCEPT !.items =
                        UPDATE_key(@, Head(fixer.pending), new_key)]
    /\ UNCHANGED <<fixer_db, fixer_db0, keyVars, migVars>>

\* fix_zotero_keys.py:177-194
EndFixItems ==
    /\ fixer.pc = "fix_items"
    /\ fixer.pending = <<>>
    /\ fixer' = [fixer EXCEPT !.pc = "commit"]
    /\ UNCHANGED <<fixer_db, fixer_tx, fixer_db0, keyVars, migVars>>

\* fix_zotero_keys.py:300-322: verify_fixes and check_for_duplicates only read
\* and log; then commit unless dry_run
FixCommit ==
    /\ fixer.pc = "commit"
    /\ fixer_db' = IF fixer.dry_run THEN fixer_db ELSE fixer_tx
    /\ fixer' = [fixer EXCEPT !.in_txn = FALSE, !.pc = "disconnect"]
    /\ UNCHANGED <<fixer_tx, fixer_db0, keyVars, migVars>>

\* fix_zotero_keys.py:330-331 and 65-68
FixDisconnect ==
    /\ fixer.pc = "disconnect"
    /\ fixer' = [fixer EXCEPT !.conn = "closed", !.pc = "done"]
    /\ UNCHANGED <<fixer_db, fixer_tx, fixer_db0, keyVars, migVars>>

NextFix ==
    \/ FixConnect
    \/ ScanCollections
    \/ FixCollectionKey
    \/ EndFixCollections
    \/ ScanItems
    \/ FixItemKey
    \/ EndFixItems
    \/ FixCommit
    \/ FixDisconnect

SpecFix == InitFix /\ [][NextFix]_vars

(***************************************************************************)
(* Papers3ToZoteroMigrator: data                                           *)
(* A Python string is a sequence of pieces (one-character or longer        *)
(* strings), so that formatting and joining are concatenations.            *)
(***************************************************************************)
\* Python None where a string may stand (no sample string has this piece)
None == <<"None">>

\* Python truthiness of a string-or-None value
Truthy(v) == v # None /\ v # <<>>

\* papers3_to_zotero.py:39-50, with .get(pub_type, 14)
ITEM_TYPE_MAP ==
    [article |-> 22, periodical |-> 22, book |-> 7, report |-> 34,
     patent |-> 29, media |-> 14, conference |-> 11, website |-> 40,
     manual |-> 14, thesis |-> 37]

\* papers3_to_zotero.py:53-71
FIELD_IDS ==
    [title |-> 1, abstractNote |-> 2, date |-> 6, url |-> 13, extra |-> 16,
     volume |-> 19, pages |-> 32, DOI |-> 59, issue |-> 76,
     publicationTitle |-> 5, publisher |-> 20, place |-> 7, ISBN |-> 69,
     ISSN |-> 71, language |-> 78, shortTitle |-> 115, accessDate |-> 65]

\* papers3_to_zotero.py:74-79
CREATOR_TYPE_MAP ==
    [author |-> 8, editor |-> 10, translator |-> 11, contributor |-> 2]

\* papers3_to_zotero.py:531  ITEM_TYPE_MAP.get(pub_type, 14)
DefaultItemType == 14
\* papers3_to_zotero.py:588  CREATOR_TYPE_MAP.get(creator_type, 8)
DefaultCreatorType == 8
\* papers3_to_zotero.py:745  itemTypeID of an attachment item
AttachmentItemType == 3
\* papers3_to_zotero.py:341  generate_key(self, length: int = 8)
length == 8

Min(S) == CHOOSE x \in S : \A y \in S : x <= y

\* dict assignment d[k] = v
Put(d, k, v) == [x \in DOMAIN d \cup {k} |-> IF x = k THEN v ELSE d[x]]

\* the store with no row
EmptyStore ==
    [collections |-> <<>>, items |-> <<>>, creators |-> <<>>, tags |-> <<>>,
     itemDataValues |-> <<>>, itemData |-> {}, itemCreators |-> {},
     itemTags |-> {}, collectionItems |-> {}, itemAttachments |-> {}]

(***************************************************************************)
(* Key generation of the importer                                          *)
(***************************************************************************)
\* papers3_to_zotero.py:343
chars == ascii_uppercase \cup digits

\* outcomes of random.choice the model draws in an import run: a key over the
\* valid alphabet and one holding the digit 0
ImportKeyDraws == {Rep("A"), RepEnd("A", "0")}

\* papers3_to_zotero.py:341-344: any string of `length` characters of chars
generate_key ==
    {key \in ImportKeyDraws :
        Len(key) = length /\ \A i \in 1..length : key[i] \in chars}

(***************************************************************************)
(* Value Interner                                                          *)
(* st is the state the methods work on: [db, collection_map, item_map,     *)
(* creator_map, tag_map, stats, target_fs, target_dirs]; an operator that  *)
(* returns a value returns a record of the new st and the value.           *)
(***************************************************************************)
\* papers3_to_zotero.py:497-524: add_item_data past its first test.  The
\* IntegrityError of line 522 is the primary key (itemID, fieldID) of itemData.
store_item_data(st, item_id, field_name, value) ==
    IF field_name \notin DOMAIN FIELD_IDS THEN st
    ELSE LET hits == {i \in 1..Len(st.db.itemDataValues) :
                         st.db.itemDataValues[i].value = value}
             db1 == IF hits # {} THEN st.db
                    ELSE [st.db EXCEPT !.itemDataValues =
                             Append(@, [value |-> value])]
             value_id == IF hits # {} THEN Min(hits)
                         ELSE Len(db1.itemDataValues)
             field_id == FIELD_IDS[field_name]
             taken == \E l \in db1.itemData :
                         l.itemID = item_id /\ l.fieldID = field_id
         IN [st EXCEPT !.db =
                IF taken THEN db1
                ELSE [db1 EXCEPT !.itemData = @ \cup
                        {[itemID |-> item_id, fieldID |-> field_id,
                          valueID |-> value_id]}]]

\* add_item_data without the test of line 494
add_item_data_unguarded(st, item_id, field_name, value) ==
    store_item_data(st, item_id, field_name, value)

\* papers3_to_zotero.py:492-524
add_item_data(st, item_id, field_name, value) ==
    IF value = None \/ value = <<>> THEN st
    ELSE store_item_data(st, item_id, field_name, value)

\* a run of add_item_data calls: pairs is a sequence of <<field_name, value>>
RECURSIVE add_item_data_all(_, _, _)
add_item_data_all(st, item_id, pairs) ==
    IF pairs = <<>> THEN st
    ELSE add_item_data_all(
            add_item_data(st, item_id, Head(pairs)[1], Head(pairs)[2]),
            item_id, Tail(pairs))

\* papers3_to_zotero.py:442  f"{firstName}|{lastName}"
creator_key(firstName, lastName) == firstName \o <<"|">> \o lastName

\* get_or_create_creator with neither the cache nor the SELECT consulted
get_or_create_creator_always_inserts(st, firstName, lastName) ==
    LET new_id == Len(st.db.creators) + 1
    IN [st |-> [st EXCEPT
                  !.db.creators = Append(@,
                      [firstName |-> firstName, lastName |-> lastName]),
                  !.stats.creators = @ + 1,
                  !.creator_map =
                      Put(@, creator_key(firstName, lastName), new_id)],
        id |-> new_id]

\* papers3_to_zotero.py:440-466
get_or_create_creator(st, firstName, lastName) ==
    LET key == creator_key(firstName, lastName)
        hits == {i \in 1..Len(st.db.creators) :
                    /\ st.db.creators[i].firstName = firstName
                    /\ st.db.creators[i].lastName = lastName}
    IN IF key \in DOMAIN st.creator_map
       THEN [st |-> st, id |-> st.creator_map[key]]
       ELSE IF hits # {}
       THEN [st |-> [st EXCEPT !.creator_map = Put(@, key, Min(hits))],
             id |-> Min(hits)]
       ELSE LET new_id == Len(st.db.creators) + 1
            IN [st |-> [st EXCEPT
                          !.db.creators = Append(@,
                              [firstName |-> firstName, lastName |-> lastName]),
                          !.stats.creators = @ + 1,
                          !.creator_map = Put(@, key, new_id)],
                id |-> new_id]

\* papers3_to_zotero.py:468-490
get_or_create_tag(st, tag_name) ==
    LET hits == {i \in 1..Len(st.db.tags) : st.db.tags[i].name = tag_name}
    IN IF tag_name \in DOMAIN st.tag_map
       THEN [st |-> st, id |-> st.tag_map[tag_name]]
       ELSE IF hits # {}
       THEN [st |-> [st EXCEPT !.tag_map = Put(@, tag_name, Min(hits))],
             id |-> Min(hits)]
       ELSE LET new_id == Len(st.db.tags) + 1
            IN [st |-> [st EXCEPT
                          !.db.tags = Append(@, [name |-> tag_name]),
                          !.stats.tags = @ + 1,
                          !.tag_map = Put(@, tag_name, new_id)],
                id |-> new_id]

(***************************************************************************)
(* migrate_publication                                                     *)
(***************************************************************************)
\* papers3_to_zotero.py:399-415.  An ISO date is the pieces
\* <<year, "-", month, "-", day, "T", time>>; strftime('%Y-%m-%d') keeps the
\* first five.
parse_papers3_date(date_str) ==
    IF ~Truthy(date_str) THEN None
    ELSE IF \E i \in 1..Len(date_str) : date_str[i] = "T"
    THEN SubSeq(date_str, 1, 5)
    ELSE date_str

\* papers3_to_zotero.py:417-438 (authors given as dicts)
parse_authors(author_list) ==
    [i \in 1..Len(author_list) |->
        <<author_list[i].prename, author_list[i].surname, author_list[i].type>>]

\* papers3_to_zotero.py:586-594: the loop over enumerate(creators), from idx
RECURSIVE add_creators(_, _, _, _)
add_creators(st, item_id, creators, idx) ==
    IF idx >= Len(creators) THEN st
    ELSE LET c == creators[idx + 1]
             r == get_or_create_creator(st, c[1], c[2])
             creator_type_id ==
                 IF c[3] \in DOMAIN CREATOR_TYPE_MAP
                 THEN CREATOR_TYPE_MAP[c[3]] ELSE DefaultCreatorType
             st1 == [r.st EXCEPT !.db.itemCreators = @ \cup
                        {[itemID |-> item_id, creatorID |-> r.id,
                          creatorTypeID |-> creator_type_id,
                          orderIndex |-> idx]}]
         IN add_creators(st1, item_id, creators, idx + 1)

\* papers3_to_zotero.py:609-616 and 639-645: INSERT INTO itemTags, the
\* IntegrityError of the primary key (itemID, tagID) swallowed
link_tag(st, item_id, tag_id) ==
    [st EXCEPT !.db.itemTags = @ \cup {[itemID |-> item_id, tagID |-> tag_id]}]

\* papers3_to_zotero.py:599-616: the loop over pub['keywords']; returns
\* [st, added_tags]
RECURSIVE add_tags(_, _, _, _)
add_tags(st, item_id, keywords, added_tags) ==
    IF keywords = <<>> THEN [st |-> st, added_tags |-> added_tags]
    ELSE LET tag_name == Head(keywords)
         IN IF Truthy(tag_name) /\ tag_name \notin added_tags
            THEN LET r == get_or_create_tag(st, tag_name)
                 IN add_tags(link_tag(r.st, item_id, r.id), item_id,
                             Tail(keywords), added_tags \cup {tag_name})
            ELSE add_tags(st, item_id, Tail(keywords), added_tags)

\* papers3_to_zotero.py:620-631: the loop over pub['collections']
RECURSIVE add_to_collections(_, _, _)
add_to_collections(st, item_id, colls) ==
    IF colls = <<>> THEN st
    ELSE LET coll_uuid == Head(colls)
             st1 == IF coll_uuid \in DOMAIN st.collection_map
                    THEN [st EXCEPT !.db.collectionItems = @ \cup
                            {[collectionID |-> st.collection_map[coll_uuid],
                              itemID |-> item_id]}]
                    ELSE st
         IN add_to_collections(st1, item_id, Tail(colls))

\* papers3_to_zotero.py:571-578
extra_parts(pub) ==
    (IF Truthy(pub.rating)
     THEN <<"Rating: ">> \o pub.rating \o <<"/5", "\n">> ELSE <<>>)
    \o (IF Truthy(pub.read_status)
        THEN <<"Read Status: ">> \o pub.read_status \o <<"\n">> ELSE <<>>)
    \o (IF Truthy(pub.times_cited)
        THEN <<"Times Cited: ">> \o pub.times_cited \o <<"\n">> ELSE <<>>)
    \o <<"Papers3 UUID: ", pub.uuid>>

\* papers3_to_zotero.py:650-653: the handler of migrate_publication
publication_failed(st, pub, exc) ==
    [st |-> [st EXCEPT !.stats.errors =
                Append(@, <<"Publication", pub.uuid, exc>>)],
     item_id |-> 0]

\* papers3_to_zotero.py:526-653.  Returns [st, item_id]; item_id 0 is the
\* None the handler returns.  key is the outcome of generate_key().
migrate_publication(st, pub, key) ==
    LET item_type_id ==
            IF pub.type \in DOMAIN ITEM_TYPE_MAP
            THEN ITEM_TYPE_MAP[pub.type] ELSE DefaultItemType
        \* 538-546
        item_id == Len(st.db.items) + 1
        s1 == [st EXCEPT
                 !.db.items = Append(@, [itemTypeID |-> item_type_id,
                                         key |-> key, version |-> 0,
                                         synced |-> 0]),
                 !.item_map = Put(@, pub.uuid, item_id)]
        \* 549-557
        s2 == add_item_data_all(s1, item_id,
                << <<"title", pub.title>>,
                   <<"abstractNote",
                     IF Truthy(pub.summary) THEN pub.summary ELSE pub.notes>>,
                   <<"date", parse_papers3_date(pub.publication_date)>>,
                   <<"DOI", pub.doi>>,
                   <<"url", pub.url>>,
                   <<"volume", pub.volume>>,
                   <<"issue", pub.number>>,
                   <<"publisher", pub.publisher>>,
                   <<"language", pub.language>> >>)
        \* 560-564
        s3 == IF Truthy(pub.startpage) /\ Truthy(pub.endpage)
              THEN add_item_data(s2, item_id, "pages",
                                 pub.startpage \o <<"-">> \o pub.endpage)
              ELSE IF Truthy(pub.pages)
              THEN add_item_data(s2, item_id, "pages", pub.pages)
              ELSE s2
    IN  \* 567-568: a bundle_details that is no dict has no .get
        IF pub.bundle_details.kind = "str"
        THEN publication_failed(s3, pub, "AttributeError")
        ELSE
        LET s4 == IF pub.bundle_details.kind = "dict"
                  THEN add_item_data(s3, item_id, "publicationTitle",
                                     pub.bundle_details.title)
                  ELSE s3
            \* 571-581
            s5 == add_item_data(s4, item_id, "extra", extra_parts(pub))
            \* 584-594
            s6 == IF pub.authors # <<>>
                  THEN add_creators(s5, item_id, parse_authors(pub.authors), 0)
                  ELSE s5
            \* 597-616
            t7 == IF pub.keywords # <<>>
                  THEN add_tags(s6, item_id, pub.keywords, {})
                  ELSE [st |-> s6, added_tags |-> {}]
            \* 619-631
            s8 == add_to_collections(t7.st, item_id, pub.collections)
            \* 634-645
            s9 == IF pub.flagged /\ <<"Flagged">> \notin t7.added_tags
                  THEN LET r == get_or_create_tag(s8, <<"Flagged">>)
                       IN link_tag(r.st, item_id, r.id)
                  ELSE s8
        IN  \* 647-648
            [st |-> [s9 EXCEPT !.stats.items = @ + 1], item_id |-> item_id]

(***************************************************************************)
(* migrate_collections                                                     *)
(* collections_data is [roots, nodes]: nodes is the sequence of all nodes, *)
(* a node is [keys, name, uuid, children], children and roots are          *)
(* sequences of indices into nodes, keys the dict keys the node has.       *)
(***************************************************************************)
\* get_or_create_collection without the SELECT of lines 352-366
get_or_create_collection_always_inserts(st, name, parent_id, key) ==
    [st |-> [st EXCEPT
               !.db.collections = Append(@,
                   [collectionName |-> name,
                    parentCollectionID |-> parent_id,
                    key |-> key, version |-> 0, synced |-> 0]),
               !.stats.collections = @ + 1],
     id |-> Len(st.db.collections) + 1]

\* get_or_create_collection with a SELECT on the name alone
get_or_create_collection_by_name(st, name, parent_id, key) ==
    LET hits == {i \in 1..Len(st.db.collections) :
                    st.db.collections[i].collectionName = name}
    IN IF hits # {}
       THEN [st |-> st, id |-> Min(hits)]
       ELSE [st |-> [st EXCEPT
                       !.db.collections = Append(@,
                           [collectionName |-> name,
                            parentCollectionID |-> parent_id,
                            key |-> key, version |-> 0, synced |-> 0]),
                       !.stats.collections = @ + 1],
             id |-> Len(st.db.collections) + 1]

\* papers3_to_zotero.py:350-376.  parent_id 0 is None; key is the outcome of
\* generate_key(), used only when a row is inserted.  Returns [st, id].
get_or_create_collection(st, name, parent_id, key) ==
    LET hits == {i \in 1..Len(st.db.collections) :
                    /\ st.db.collections[i].collectionName = name
                    /\ st.db.collections[i].parentCollectionID = parent_id}
    IN IF hits # {}
       THEN [st |-> st, id |-> Min(hits)]
       ELSE [st |-> [st EXCEPT
                       !.db.collections = Append(@,
                           [collectionName |-> name,
                            parentCollectionID |-> parent_id,
                            key |-> key, version |-> 0, synced |-> 0]),
                       !.stats.collections = @ + 1],
             id |-> Len(st.db.collections) + 1]

\* the handler of import_collection appending nothing
collection_failed_silently(st, exc) == st

\* papers3_to_zotero.py:389-391: the handler of import_collection
collection_failed(st, exc) ==
    [st EXCEPT !.stats.errors = Append(@, <<"Collection", exc>>)]

\* import_collection with the parent's id stored in collection_map in place
\* of the collection's own
import_collection_maps_parent(st, nodes, n, parent_id, key) ==
    LET collection == nodes[n]
    IN IF "name" \notin collection.keys
       THEN [st |-> collection_failed(st, "KeyError"), children |-> <<>>]
       ELSE LET r == get_or_create_collection(st, collection.name,
                                              parent_id, key)
            IN IF "uuid" \notin collection.keys
               THEN [st |-> collection_failed(r.st, "KeyError"),
                     children |-> <<>>]
               ELSE [st |-> [r.st EXCEPT !.collection_map =
                                Put(@, collection.uuid, parent_id)],
                     children |->
                        IF "children" \in collection.keys
                        THEN [i \in 1..Len(collection.children) |->
                                [node |-> collection.children[i],
                                 parent_id |-> r.id]]
                        ELSE <<>>]

\* papers3_to_zotero.py:378-391, one call without the recursion: returns
\* [st, children], children the calls import_collection(child, coll_id) the
\* loop of line 386 makes, as a sequence of [node, parent_id]
import_collection(st, nodes, n, parent_id, key) ==
    LET collection == nodes[n]
    IN IF "name" \notin collection.keys
       THEN [st |-> collection_failed(st, "KeyError"), children |-> <<>>]
       ELSE LET r == get_or_create_collection(st, collection.name,
                                              parent_id, key)
            IN IF "uuid" \notin collection.keys
               THEN [st |-> collection_failed(r.st, "KeyError"),
                     children |-> <<>>]
               ELSE [st |-> [r.st EXCEPT !.collection_map =
                                Put(@, collection.uuid, r.id)],
                     children |->
                        IF "children" \in collection.keys
                        THEN [i \in 1..Len(collection.children) |->
                                [node |-> collection.children[i],
                                 parent_id |-> r.id]]
                        ELSE <<>>]

(***************************************************************************)
(* File organizer                                                          *)
(* A file's content is a sequence of bytes.  A path under the destination  *)
(* root is [parent, stem, counter, suffix]: parent the directories, stem   *)
(* the file name without extension, counter 0 or the number of the _N      *)
(* variant.  A file system maps the paths that exist to their content.     *)
(***************************************************************************)
\* papers3_to_zotero.py:152  invalid_chars = '<>:"|?*\\/\0'
invalid_chars == {"<", ">", ":", "\"", "|", "?", "*", "\\", "/"}

\* papers3_to_zotero.py:146  max_length: int = 100
TitleMaxLength == 100
\* papers3_to_zotero.py:248  sanitize_filename(author_name, 50)
AuthorMaxLength == 50

\* str.strip(' .') and str.rstrip(' .')
RECURSIVE rstrip(_)
rstrip(name) ==
    IF name # <<>> /\ name[Len(name)] \in {" ", "."}
    THEN rstrip(SubSeq(name, 1, Len(name) - 1)) ELSE name

RECURSIVE lstrip(_)
lstrip(name) ==
    IF name # <<>> /\ Head(name) \in {" ", "."}
    THEN lstrip(Tail(name)) ELSE name

\* papers3_to_zotero.py:146-170 (no sample has a control character)
sanitize_filename(filename, max_length) ==
    IF ~Truthy(filename) THEN <<"Unknown">>
    ELSE LET replaced == [i \in 1..Len(filename) |->
                            IF filename[i] \in invalid_chars
                            THEN "_" ELSE filename[i]]
             stripped == rstrip(lstrip(replaced))
             cut == IF Len(stripped) > max_length
                    THEN rstrip(SubSeq(stripped, 1, max_length))
                    ELSE stripped
         IN IF cut = <<>> THEN <<"Unknown">> ELSE cut

\* papers3_to_zotero.py:172-200, the whole file hashed; MD5 is taken to be
\* free of collisions.  A file that cannot be opened (EACCES) has the content
\* <<-13>>, which no file of bytes has; its hash is the "" of line 200.
compute_file_hash(content) == IF content = <<-13>> THEN <<>> ELSE content

\* papers3_to_zotero.py:209  stat().st_size
st_size(content) == Len(content)

\* papers3_to_zotero.py:202-216
files_are_identical(content1, content2) ==
    IF st_size(content1) # st_size(content2) THEN FALSE
    ELSE compute_file_hash(content1) = compute_file_hash(content2)

\* papers3_to_zotero.py:218-267.  A year-only date is one piece of four
\* characters; an ISO date starts with its year piece.
build_base_path(pub, pdf) ==
    LET pub_date == pub.publication_date
        year == IF ~Truthy(pub_date) THEN "Unknown"
                ELSE IF \E i \in 1..Len(pub_date) : pub_date[i] = "T"
                THEN pub_date[1]
                ELSE IF Len(pub_date) = 1 THEN pub_date[1]
                ELSE "Unknown"
        author_name ==
            IF pub.authors # <<>>
            THEN sanitize_filename(
                    IF Truthy(pub.authors[1].surname)
                    THEN pub.authors[1].surname ELSE <<"NoAuthor">>,
                    AuthorMaxLength)
            ELSE <<"NoAuthor">>
        title == sanitize_filename(pub.title, TitleMaxLength)
    IN [parent |-> <<year, author_name>>,
        stem |-> title \o <<"_", year>>,
        counter |-> 0,
        suffix |-> IF pdf.suffix = "" THEN ".pdf" ELSE pdf.suffix]

\* papers3_to_zotero.py:288  range(2, 11)
FirstVariant == 2
LastVariant == 10

\* find_available_path probing the numbered variants from _10 down to _2
find_available_path_descending(fs, source, base_target_path, pub_uuid) ==
    LET variant(c) == [base_target_path EXCEPT !.counter = c]
        usable == {c \in FirstVariant..LastVariant :
                      \/ variant(c) \notin DOMAIN fs
                      \/ files_are_identical(source, fs[variant(c)])}
        last == CHOOSE c \in usable : \A d \in usable : d <= c
        uuid_path == [base_target_path EXCEPT !.stem = <<pub_uuid>>]
    IN IF base_target_path \notin DOMAIN fs
       THEN [path |-> base_target_path, is_duplicate |-> FALSE]
       ELSE IF files_are_identical(source, fs[base_target_path])
       THEN [path |-> base_target_path, is_duplicate |-> TRUE]
       ELSE IF usable # {}
       THEN [path |-> variant(last),
             is_duplicate |-> variant(last) \in DOMAIN fs]
       ELSE IF uuid_path \in DOMAIN fs
               /\ files_are_identical(source, fs[uuid_path])
       THEN [path |-> uuid_path, is_duplicate |-> TRUE]
       ELSE [path |-> uuid_path, is_duplicate |-> FALSE]

\* papers3_to_zotero.py:269-299.  fs is the destination tree, source the
\* content of the source file.  Returns [path, is_duplicate].
find_available_path(fs, source, base_target_path, pub_uuid) ==
    LET variant(c) == [base_target_path EXCEPT !.counter = c]
        usable == {c \in FirstVariant..LastVariant :
                      \/ variant(c) \notin DOMAIN fs
                      \/ files_are_identical(source, fs[variant(c)])}
        uuid_path == [base_target_path EXCEPT !.stem = <<pub_uuid>>]
    IN IF base_target_path \notin DOMAIN fs
       THEN [path |-> base_target_path, is_duplicate |-> FALSE]
       ELSE IF files_are_identical(source, fs[base_target_path])
       THEN [path |-> base_target_path, is_duplicate |-> TRUE]
       ELSE IF usable # {}
       THEN [path |-> variant(Min(usable)),
             is_duplicate |-> variant(Min(usable)) \in DOMAIN fs]
       ELSE IF uuid_path \in DOMAIN fs
               /\ files_are_identical(source, fs[uuid_path])
       THEN [path |-> uuid_path, is_duplicate |-> TRUE]
       ELSE [path |-> uuid_path, is_duplicate |-> FALSE]

\* the path that stands for "no path" (None) where a path is returned
NoPath == [parent |-> <<>>, stem |-> <<>>, counter |-> 0, suffix |-> ""]

\* a path outside the destination tree, as the catalog gives it
AsPath(pdf_path) ==
    [parent |-> <<>>, stem |-> <<pdf_path>>, counter |-> 0, suffix |-> ""]

\* copy_and_organize_file with a missing source answered by the base path
\* in place of None
copy_and_organize_file_answers_missing(st, src_fs, test_mode, source_path, target_path, pub_uuid) ==
    IF source_path \notin DOMAIN src_fs
    THEN [st |-> [st EXCEPT
                     !.stats.files_missing = @ + 1,
                     !.stats.missing_files = Append(@, source_path)],
          path |-> target_path]
    ELSE LET found == find_available_path(st.target_fs, src_fs[source_path],
                                          target_path, pub_uuid)
             f1 == [st EXCEPT !.stats.files_found = @ + 1]
         IN IF found.is_duplicate
            THEN [st |-> [f1 EXCEPT !.stats.files_skipped = @ + 1],
                  path |-> found.path]
            ELSE IF ~test_mode /\ src_fs[source_path] = <<-13>>
            THEN [st |-> [f1 EXCEPT
                     !.target_dirs = @ \cup {<<found.path.parent[1]>>,
                                             found.path.parent},
                     !.stats.errors =
                         Append(@, <<"File copy error", "PermissionError">>)],
                  path |-> NoPath]
            ELSE [st |-> [f1 EXCEPT
                     !.target_dirs = @ \cup {<<found.path.parent[1]>>,
                                             found.path.parent},
                     !.target_fs = IF test_mode THEN @
                                   ELSE Put(@, found.path, src_fs[source_path]),
                     !.stats.files_copied = @ + 1],
                  path |-> found.path]

\* copy_and_organize_file with files_found counted after the copy, where an
\* attachment whose copy raises is not counted
copy_and_organize_file_counts_late(st, src_fs, test_mode, source_path, target_path, pub_uuid) ==
    IF source_path \notin DOMAIN src_fs
    THEN [st |-> [st EXCEPT
                     !.stats.files_missing = @ + 1,
                     !.stats.missing_files = Append(@, source_path)],
          path |-> NoPath]
    ELSE LET found == find_available_path(st.target_fs, src_fs[source_path],
                                          target_path, pub_uuid)
             f1 == [st EXCEPT !.stats.files_found = @ + 1]
         IN IF found.is_duplicate
            THEN [st |-> [f1 EXCEPT !.stats.files_skipped = @ + 1],
                  path |-> found.path]
            ELSE IF ~test_mode /\ src_fs[source_path] = <<-13>>
            THEN [st |-> [st EXCEPT
                     !.target_dirs = @ \cup {<<found.path.parent[1]>>,
                                             found.path.parent},
                     !.stats.errors =
                         Append(@, <<"File copy error", "PermissionError">>)],
                  path |-> NoPath]
            ELSE [st |-> [f1 EXCEPT
                     !.target_dirs = @ \cup {<<found.path.parent[1]>>,
                                             found.path.parent},
                     !.target_fs = IF test_mode THEN @
                                   ELSE Put(@, found.path, src_fs[source_path]),
                     !.stats.files_copied = @ + 1],
                  path |-> found.path]

\* papers3_to_zotero.py:655-694.  Returns [st, path]; path NoPath is the None
\* of lines 666 and 694.
copy_and_organize_file(st, src_fs, test_mode, source_path, target_path, pub_uuid) ==
    IF source_path \notin DOMAIN src_fs
    THEN [st |-> [st EXCEPT
                     !.stats.files_missing = @ + 1,
                     !.stats.missing_files = Append(@, source_path)],
          path |-> NoPath]
    ELSE LET found == find_available_path(st.target_fs, src_fs[source_path],
                                          target_path, pub_uuid)
             f1 == [st EXCEPT !.stats.files_found = @ + 1]
         IN IF found.is_duplicate
            THEN [st |-> [f1 EXCEPT !.stats.files_skipped = @ + 1],
                  path |-> found.path]
            \* 683 raises after the mkdir of 679: the handler of 691-694
            ELSE IF ~test_mode /\ src_fs[source_path] = <<-13>>
            THEN [st |-> [f1 EXCEPT
                     !.target_dirs = @ \cup {<<found.path.parent[1]>>,
                                             found.path.parent},
                     !.stats.errors =
                         Append(@, <<"File copy error", "PermissionError">>)],
                  path |-> NoPath]
            ELSE [st |-> [f1 EXCEPT
                     \* 679: mkdir(parents=True, exist_ok=True)
                     !.target_dirs = @ \cup {<<found.path.parent[1]>>,
                                             found.path.parent},
                     \* 682-686
                     !.target_fs = IF test_mode THEN @
                                   ELSE Put(@, found.path, src_fs[source_path]),
                     !.stats.files_copied = @ + 1],
                  path |-> found.path]

\* migrate_pdf without the test of line 739
migrate_pdf_always_inserts(st, cfg, src_fs, pub, pdf, parent_item_id, key) ==
    IF pdf.kind # "dict" \/ pdf.path = "" THEN st
    ELSE
    LET organize == cfg.files_dir # "None" /\ cfg.files_target_dir
        r == IF organize
             THEN copy_and_organize_file(st, src_fs, cfg.test_mode, pdf.path,
                                         build_base_path(pub, pdf), pub.uuid)
             ELSE [st |-> st, path |-> AsPath(pdf.path)]
    IN IF r.path = NoPath THEN r.st
       ELSE LET attachment_id == Len(r.st.db.items) + 1
                s1 == [r.st EXCEPT
                         !.db.items = Append(@,
                             [itemTypeID |-> AttachmentItemType, key |-> key,
                              version |-> 0, synced |-> 0]),
                         !.db.itemAttachments = @ \cup
                             {[itemID |-> attachment_id,
                               parentItemID |-> parent_item_id,
                               path |-> r.path]}]
                s2 == add_item_data(s1, attachment_id, "title", pdf.caption)
            IN [s2 EXCEPT !.stats.attachments = @ + 1]

\* papers3_to_zotero.py:705-764: one iteration of the loop over pub['pdfs'].
\* cfg is the constructor arguments, parent_item_id 0 is None, key the
\* outcome of generate_key() (used only when an attachment item is inserted).
migrate_pdf(st, cfg, src_fs, pub, pdf, parent_item_id, key) ==
    IF pdf.kind # "dict" \/ pdf.path = "" THEN st
    ELSE
    LET organize == cfg.files_dir # "None" /\ cfg.files_target_dir
        r == IF organize
             THEN copy_and_organize_file(st, src_fs, cfg.test_mode, pdf.path,
                                         build_base_path(pub, pdf), pub.uuid)
             ELSE [st |-> st, path |-> AsPath(pdf.path)]
    IN IF r.path = NoPath THEN r.st
       ELSE IF cfg.files_only \/ parent_item_id = 0 THEN r.st
       ELSE LET attachment_id == Len(r.st.db.items) + 1
                s1 == [r.st EXCEPT
                         !.db.items = Append(@,
                             [itemTypeID |-> AttachmentItemType, key |-> key,
                              version |-> 0, synced |-> 0]),
                         !.db.itemAttachments = @ \cup
                             {[itemID |-> attachment_id,
                               parentItemID |-> parent_item_id,
                               path |-> r.path]}]
                s2 == add_item_data(s1, attachment_id, "title", pdf.caption)
            IN [s2 EXCEPT !.stats.attachments = @ + 1]

(***************************************************************************)
(* migrate(): the run                                                      *)
(***************************************************************************)
\* the mutable state of the migrator as the record the operators work on
St ==
    [db |-> zotero_tx, collection_map |-> collection_map,
     item_map |-> item_map, creator_map |-> creator_map, tag_map |-> tag_map,
     stats |-> stats, target_fs |-> target_fs, target_dirs |-> target_dirs]

SetSt(s) ==
    /\ zotero_tx' = s.db
    /\ collection_map' = s.collection_map
    /\ item_map' = s.item_map
    /\ creator_map' = s.creator_map
    /\ tag_map' = s.tag_map
    /\ stats' = s.stats
    /\ target_fs' = s.target_fs
    /\ target_dirs' = s.target_dirs

stVars == <<zotero_tx, collection_map, item_map, creator_map, tag_map, stats,
            target_fs, target_dirs>>
inputVars == <<args, catalog, source_fs, zotero_db0, target_fs0, earlier>>

\* args.limit when --limit is not given
NoLimit == -1

\* papers3_to_zotero.py:789-791 and 819-821: publications[:self.limit] if
\* self.limit (None and 0 are falsy)
limited(publications, limit) ==
    IF limit = NoLimit \/ limit = 0 THEN publications
    ELSE SubSeq(publications, 1,
                IF limit < Len(publications) THEN limit ELSE Len(publications))

\* papers3_to_zotero.py:770-779
Validate ==
    /\ run.pc = "start"
    /\ run' = [run EXCEPT !.pc =
                 IF args.files_dir = "invalid" THEN "exit"
                 ELSE IF args.files_dir = "valid" /\ ~args.files_target_dir
                 THEN "exit"
                 ELSE "load"]
    /\ UNCHANGED <<inputVars, stVars, papers3_data, collections_data,
                   zotero_db, conn, sql_log, keyVars, fixVars>>

\* load_papers3_data going on with no publications where line 326 raises
LoadDocuments_without_raise ==
    /\ run.pc = "load"
    /\ papers3_data' = IF catalog.pub_file THEN catalog.publications ELSE <<>>
    /\ collections_data' =
         IF catalog.coll_file THEN catalog.collections
         ELSE [roots |-> <<>>, nodes |-> <<>>]
    /\ run' = [run EXCEPT !.pc =
                 IF args.files_only THEN "files_only_start" ELSE "connect"]
    /\ UNCHANGED <<inputVars, stVars, zotero_db, conn, sql_log, keyVars,
                   fixVars>>

\* papers3_to_zotero.py:783 and 308-339
LoadDocuments ==
    /\ run.pc = "load"
    /\ IF ~catalog.pub_file
       THEN /\ run' = [run EXCEPT !.raised = "FileNotFoundError",
                                  !.pc = "finally"]
            /\ UNCHANGED <<papers3_data, collections_data>>
       ELSE /\ papers3_data' = catalog.publications
            /\ collections_data' =
                 IF catalog.coll_file THEN catalog.collections
                 ELSE [roots |-> <<>>, nodes |-> <<>>]
            /\ run' = [run EXCEPT !.pc =
                         IF args.files_only THEN "files_only_start"
                         ELSE "connect"]
    /\ UNCHANGED <<inputVars, stVars, zotero_db, conn, sql_log, keyVars,
                   fixVars>>

\* papers3_to_zotero.py:808 and 301-306
Connect ==
    /\ run.pc = "connect"
    /\ conn' = "open"
    /\ run' = [run EXCEPT !.pc = "begin"]
    /\ UNCHANGED <<inputVars, stVars, papers3_data, collections_data,
                   zotero_db, sql_log, keyVars, fixVars>>

\* the step of line 811 without its statement
Begin_without_statement ==
    /\ run.pc = "begin"
    /\ run' = [run EXCEPT !.pc = "collections"]
    /\ UNCHANGED <<inputVars, stVars, papers3_data, collections_data,
                   zotero_db, conn, sql_log, keyVars, fixVars>>

\* papers3_to_zotero.py:811
Begin ==
    /\ run.pc = "begin"
    /\ sql_log' = Append(sql_log, "BEGIN")
    /\ run' = [run EXCEPT !.pc = "collections"]
    /\ UNCHANGED <<inputVars, stVars, papers3_data, collections_data,
                   zotero_db, conn, keyVars, fixVars>>

\* papers3_to_zotero.py:815-816 and 394: the calls import_collection(root)
MigrateCollections ==
    /\ run.pc = "collections"
    /\ run' = [run EXCEPT
                 !.coll_stack = [i \in 1..Len(collections_data.roots) |->
                                   [node |-> collections_data.roots[i],
                                    parent_id |-> 0]],
                 !.pc = "import_collection"]
    /\ UNCHANGED <<inputVars, stVars, papers3_data, collections_data,
                   zotero_db, conn, sql_log, keyVars, fixVars>>

\* papers3_to_zotero.py:378-391: the next call of import_collection in
\* pre-order
ImportCollection ==
    /\ run.pc = "import_collection"
    /\ run.coll_stack # <<>>
    /\ \E key \in generate_key :
          LET top == Head(run.coll_stack)
              r == import_collection(St, collections_data.nodes, top.node,
                                     top.parent_id, key)
          IN /\ SetSt(r.st)
             /\ run' = [run EXCEPT !.coll_stack = r.children \o Tail(@)]
    /\ UNCHANGED <<inputVars, papers3_data, collections_data, zotero_db, conn,
                   sql_log, keyVars, fixVars>>

\* papers3_to_zotero.py:819-828
StartPublications ==
    /\ run.pc = "import_collection"
    /\ run.coll_stack = <<>>
    /\ run' = [run EXCEPT !.publications = limited(papers3_data, args.limit),
                          !.idx = 0,
                          !.pc = "loop"]
    /\ UNCHANGED <<inputVars, stVars, papers3_data, collections_data,
                   zotero_db, conn, sql_log, keyVars, fixVars>>

\* the step of the loop with line 837 testing skip_attachments alone
MigratePublication_any_item ==
    /\ run.pc = "loop"
    /\ run.idx < Len(run.publications)
    /\ \E key \in generate_key :
          LET r == migrate_publication(St, run.publications[run.idx + 1], key)
          IN /\ SetSt(r.st)
             /\ run' = IF ~args.skip_attachments
                       THEN [run EXCEPT !.item_id = r.item_id, !.pc = "pdfs"]
                       ELSE [run EXCEPT !.item_id = r.item_id, !.idx = @ + 1]
    /\ UNCHANGED <<inputVars, papers3_data, collections_data, zotero_db, conn,
                   sql_log, keyVars, fixVars>>

\* papers3_to_zotero.py:830-838: migrate_publication(pub) and the test of
\* line 837
MigratePublication ==
    /\ run.pc = "loop"
    /\ run.idx < Len(run.publications)
    /\ \E key \in generate_key :
          LET r == migrate_publication(St, run.publications[run.idx + 1], key)
          IN /\ SetSt(r.st)
             /\ run' = IF r.item_id # 0 /\ ~args.skip_attachments
                       THEN [run EXCEPT !.item_id = r.item_id, !.pc = "pdfs"]
                       ELSE [run EXCEPT !.item_id = r.item_id, !.idx = @ + 1]
    /\ UNCHANGED <<inputVars, papers3_data, collections_data, zotero_db, conn,
                   sql_log, keyVars, fixVars>>

\* where migrate_pdfs returns to: the next publication of the loop it was
\* called from
ReturnFromPdfs ==
    [run EXCEPT !.idx = @ + 1,
                !.pc = IF args.files_only THEN "files_only" ELSE "loop"]

\* papers3_to_zotero.py:698-704: the tests before the loop; a pub['pdfs']
\* that is no list raises TypeError outside every try of migrate_pdfs
EnterMigratePdfs ==
    /\ run.pc = "pdfs"
    /\ LET pub == run.publications[run.idx + 1]
       IN run' =
            IF args.skip_attachments THEN ReturnFromPdfs
            ELSE IF pub.pdfs.kind = "None" \/
                    (pub.pdfs.kind = "list" /\ pub.pdfs.list = <<>>)
            THEN ReturnFromPdfs
            ELSE IF pub.pdfs.kind # "list"
            THEN [run EXCEPT !.raised = "TypeError",
                             !.pc = IF args.files_only THEN "finally"
                                    ELSE "except"]
            ELSE [run EXCEPT !.pdf_idx = 0, !.pc = "pdf_loop"]
    /\ UNCHANGED <<inputVars, stVars, papers3_data, collections_data,
                   zotero_db, conn, sql_log, keyVars, fixVars>>

\* papers3_to_zotero.py:704-764: one iteration of the loop
MigratePdf ==
    /\ run.pc = "pdf_loop"
    /\ LET pub == run.publications[run.idx + 1]
       IN /\ run.pdf_idx < Len(pub.pdfs.list)
          /\ \E key \in generate_key :
                SetSt(migrate_pdf(St, args, source_fs, pub,
                                  pub.pdfs.list[run.pdf_idx + 1],
                                  run.item_id, key))
    /\ run' = [run EXCEPT !.pdf_idx = @ + 1]
    /\ UNCHANGED <<inputVars, papers3_data, collections_data, zotero_db, conn,
                   sql_log, keyVars, fixVars>>

\* papers3_to_zotero.py:704: the loop is over, migrate_pdfs returns
LeaveMigratePdfs ==
    /\ run.pc = "pdf_loop"
    /\ run.pdf_idx >= Len(run.publications[run.idx + 1].pdfs.list)
    /\ run' = ReturnFromPdfs
    /\ UNCHANGED <<inputVars, stVars, papers3_data, collections_data,
                   zotero_db, conn, sql_log, keyVars, fixVars>>

\* the branch of line 841 taken whatever the mode: always commit
end_of_run_commits(test_mode) == "COMMIT"

\* the branch of line 841 inverted
end_of_run_inverted(test_mode) == IF test_mode THEN "COMMIT" ELSE "ROLLBACK"

\* papers3_to_zotero.py:841-846: how the transaction ends once the loop is over
end_of_run(test_mode) == IF test_mode THEN "ROLLBACK" ELSE "COMMIT"

\* the handler of line 849 without its rollback
on_unrecoverable_keeps == "NONE"

\* papers3_to_zotero.py:849-853: how the transaction ends when an exception
\* leaves the loop
on_unrecoverable == "ROLLBACK"

\* sqlite: COMMIT makes the connection's view the content of the file,
\* ROLLBACK makes the content of the file the connection's view
EndTransaction(statement) ==
    /\ zotero_db' = IF statement = "COMMIT" THEN zotero_tx ELSE zotero_db
    /\ zotero_tx' = IF statement = "ROLLBACK" THEN zotero_db ELSE zotero_tx
    /\ sql_log' = IF statement \in {"COMMIT", "ROLLBACK"}
                  THEN Append(sql_log, statement) ELSE sql_log

\* papers3_to_zotero.py:840-847
CommitOrRollback ==
    /\ run.pc = "loop"
    /\ run.idx >= Len(run.publications)
    /\ EndTransaction(end_of_run(args.test_mode))
    /\ run' = [run EXCEPT !.pc = "report"]
    /\ UNCHANGED <<inputVars, collection_map, item_map, creator_map, tag_map,
                   stats, target_fs, target_dirs, papers3_data,
                   collections_data, conn, keyVars, fixVars>>

\* papers3_to_zotero.py:849-854: rollback, then the exception goes on
ExceptRollback ==
    /\ run.pc = "except"
    /\ EndTransaction(on_unrecoverable)
    /\ run' = [run EXCEPT !.pc = "finally"]
    /\ UNCHANGED <<inputVars, collection_map, item_map, creator_map, tag_map,
                   stats, target_fs, target_dirs, papers3_data,
                   collections_data, conn, keyVars, fixVars>>

\* papers3_to_zotero.py:789-794
FilesOnlyStart ==
    /\ run.pc = "files_only_start"
    /\ run' = [run EXCEPT !.publications = limited(papers3_data, args.limit),
                          !.idx = 0,
                          !.pc = "files_only"]
    /\ UNCHANGED <<inputVars, stVars, papers3_data, collections_data,
                   zotero_db, conn, sql_log, keyVars, fixVars>>

\* papers3_to_zotero.py:796-801: migrate_pdfs(pub, None)
FilesOnlyPublication ==
    /\ run.pc = "files_only"
    /\ run.idx < Len(run.publications)
    /\ run' = [run EXCEPT !.item_id = 0, !.pc = "pdfs"]
    /\ UNCHANGED <<inputVars, stVars, papers3_data, collections_data,
                   zotero_db, conn, sql_log, keyVars, fixVars>>

\* papers3_to_zotero.py:803
FilesOnlyDone ==
    /\ run.pc = "files_only"
    /\ run.idx >= Len(run.publications)
    /\ run' = [run EXCEPT !.pc = "report"]
    /\ UNCHANGED <<inputVars, stVars, papers3_data, collections_data,
                   zotero_db, conn, sql_log, keyVars, fixVars>>

\* papers3_to_zotero.py:856-885: the counts and the errors logged. The open()
\* of line 876 writes migration_missing_files.log into the working directory
\* and may raise OSError: the counts are logged by then, the errors are not
\* (report holds the counts with an empty error list)
Report ==
    /\ run.pc = "report"
    /\ \E oserror \in IF args.files_dir # "None" /\ stats.missing_files # <<>>
                       THEN BOOLEAN ELSE {FALSE} :
          run' = IF oserror
                 THEN [run EXCEPT !.report = <<[stats EXCEPT !.errors = <<>>]>>,
                                  !.raised = "OSError",
                                  !.pc = "finally"]
                 ELSE [run EXCEPT !.report = <<stats>>, !.pc = "finally"]
    /\ UNCHANGED <<inputVars, stVars, papers3_data, collections_data,
                   zotero_db, conn, sql_log, keyVars, fixVars>>

\* the finally clause without its close()
Close_leaves_open ==
    /\ run.pc = "finally"
    /\ run' = [run EXCEPT !.pc = "done"]
    /\ UNCHANGED <<inputVars, stVars, papers3_data, collections_data,
                   zotero_db, conn, sql_log, keyVars, fixVars>>

\* papers3_to_zotero.py:887-889
Close ==
    /\ run.pc = "finally"
    /\ conn' = IF conn = "open" THEN "closed" ELSE conn
    /\ run' = [run EXCEPT !.pc = "done"]
    /\ UNCHANGED <<inputVars, stVars, papers3_data, collections_data,
                   zotero_db, sql_log, keyVars, fixVars>>

Next ==
    \/ Validate
    \/ LoadDocuments
    \/ Connect
    \/ Begin
    \/ MigrateCollections
    \/ ImportCollection
    \/ StartPublications
    \/ MigratePublication
    \/ EnterMigratePdfs
    \/ MigratePdf
    \/ LeaveMigratePdfs
    \/ CommitOrRollback
    \/ ExceptRollback
    \/ FilesOnlyStart
    \/ FilesOnlyPublication
    \/ FilesOnlyDone
    \/ Report
    \/ Close

(***************************************************************************)
(* Inputs of an import run                                                 *)
(***************************************************************************)
\* a publication with nothing but its identifier
BlankPub(uuid) ==
    [uuid |-> uuid, type |-> "article", title |-> None, summary |-> None,
     notes |-> None, publication_date |-> None, doi |-> None, url |-> None,
     volume |-> None, number |-> None, publisher |-> None, language |-> None,
     startpage |-> None, endpage |-> None, pages |-> None,
     bundle_details |-> [kind |-> "None", title |-> None],
     rating |-> None, read_status |-> None, times_cited |-> None,
     authors |-> <<>>, keywords |-> <<>>, collections |-> <<>>,
     flagged |-> FALSE, pdfs |-> [kind |-> "None", list |-> <<>>]]

Smith == [prename |-> <<"J">>, surname |-> <<"Smith">>, type |-> "author"]

Pdf(path) ==
    [kind |-> "dict", path |-> path, caption |-> <<"PDF">>, suffix |-> ".pdf"]

\* an article in collection c1 with one attachment
PubA ==
    [BlankPub("p1") EXCEPT
        !.title = <<"Alpha">>, !.publication_date = <<"2020">>,
        !.bundle_details = [kind |-> "dict", title |-> <<"Journal">>],
        !.startpage = <<"1">>, !.endpage = <<"9">>,
        !.authors = <<Smith>>, !.keywords = << <<"ml">> >>,
        !.collections = <<"c1">>,
        !.pdfs = [kind |-> "list", list |-> <<Pdf("f1")>>]]

\* same title, year and first author as PubA (the same base path), the same
\* creator and keyword, flagged, with two attachments: one with the bytes of
\* PubA's, one missing from the Files directory
PubB ==
    [BlankPub("p2") EXCEPT
        !.type = "thesis",
        !.title = <<"Alpha">>, !.publication_date = <<"2020">>,
        !.rating = <<"4">>,
        !.authors = <<Smith>>, !.keywords = << <<"ml">>, <<"ml">> >>,
        !.collections = <<"c2", "c9">>,
        !.flagged = TRUE,
        !.pdfs = [kind |-> "list", list |-> <<Pdf("f2"), Pdf("gone")>>]]

\* bundle_details is a string: line 568 raises after the item row and the
\* title were written
PubBad ==
    [BlankPub("p3") EXCEPT
        !.type = "unknown",
        !.title = <<"Gamma">>,
        !.bundle_details = [kind |-> "str", title |-> None],
        !.pdfs = [kind |-> "list", list |-> <<Pdf("f1"), Pdf("f4")>>]]

\* pdfs is a number: line 704 raises outside every handler of migrate_pdfs
PubFatal ==
    [BlankPub("p4") EXCEPT
        !.title = <<"Delta">>,
        !.pdfs = [kind |-> "int", list |-> <<>>]]

PubSamples == {PubA, PubB, PubBad, PubFatal}

RECURSIVE SeqsUpTo(_, _)
SeqsUpTo(S, n) ==
    IF n = 0 THEN {<<>>}
    ELSE LET shorter == SeqsUpTo(S, n - 1)
         IN shorter \cup {Append(q, x) : q \in {r \in shorter : Len(r) = n - 1},
                                         x \in S}

\* a root collection with one child
TreeSample ==
    [roots |-> <<1>>,
     nodes |-> << [keys |-> {"name", "uuid", "children"},
                   name |-> <<"Inbox">>, uuid |-> "c1", children |-> <<2>>],
                  [keys |-> {"name", "uuid"},
                   name |-> <<"Sub">>, uuid |-> "c2", children |-> <<>>] >>]

\* a store of an earlier session: the root collection, one item with its
\* title, the creator and the keyword of the samples
UsedStore ==
    [collections |-> << [collectionName |-> <<"Inbox">>,
                         parentCollectionID |-> 0, key |-> Rep("A"),
                         version |-> 1, synced |-> 1] >>,
     items |-> << [itemTypeID |-> 22, key |-> Rep("B"), version |-> 1,
                   synced |-> 1] >>,
     creators |-> << [firstName |-> <<"J">>, lastName |-> <<"Smith">>] >>,
     tags |-> << [name |-> <<"ml">>] >>,
     itemDataValues |-> << [value |-> <<"Alpha">>] >>,
     itemData |-> {[itemID |-> 1, fieldID |-> 1, valueID |-> 1]},
     itemCreators |-> {[itemID |-> 1, creatorID |-> 1, creatorTypeID |-> 8,
                        orderIndex |-> 0]},
     itemTags |-> {[itemID |-> 1, tagID |-> 1]},
     collectionItems |-> {[collectionID |-> 1, itemID |-> 1]},
     itemAttachments |-> {}]

\* the Files directory: f1 and f2 hold the same bytes, f3 others, f4 cannot
\* be opened (shutil.copy2 raises PermissionError)
SourceFiles == [p \in {"f1", "f2", "f3", "f4"} |->
                   IF p = "f3" THEN <<7, 7>>
                   ELSE IF p = "f4" THEN <<-13>> ELSE <<1, 2>>]

\* self.stats of __init__ (papers3_to_zotero.py:114-126)
InitialStats ==
    [collections |-> 0, items |-> 0, attachments |-> 0, creators |-> 0,
     tags |-> 0, errors |-> <<>>, files_found |-> 0, files_copied |-> 0,
     files_skipped |-> 0, files_missing |-> 0, missing_files |-> <<>>]

\* the ways the tool is run: database import with the files organized, with
\* the catalog's paths kept, with --skip-attachments, and --files-only
ModeSamples ==
    {[files_dir |-> "valid", files_target_dir |-> TRUE,
      skip_attachments |-> FALSE, files_only |-> FALSE],
     [files_dir |-> "None", files_target_dir |-> FALSE,
      skip_attachments |-> FALSE, files_only |-> FALSE],
     [files_dir |-> "None", files_target_dir |-> FALSE,
      skip_attachments |-> TRUE, files_only |-> FALSE],
     [files_dir |-> "valid", files_target_dir |-> TRUE,
      skip_attachments |-> FALSE, files_only |-> TRUE],
     [files_dir |-> "invalid", files_target_dir |-> TRUE,
      skip_attachments |-> FALSE, files_only |-> FALSE]}

\* papers3_to_zotero.py:81-126: the migrator as constructed, before migrate()
Constructed(cfg, cat, store, src, dst) ==
    /\ args = cfg
    /\ catalog = cat
    /\ papers3_data = <<>>
    /\ collections_data = [roots |-> <<>>, nodes |-> <<>>]
    /\ zotero_db = store /\ zotero_tx = store /\ zotero_db0 = store
    /\ conn = "none"
    /\ sql_log = <<>>
    /\ collection_map = EmptyMap /\ item_map = EmptyMap
    /\ creator_map = EmptyMap /\ tag_map = EmptyMap
    /\ stats = InitialStats
    /\ source_fs = src
    /\ target_fs = dst /\ target_fs0 = dst
    /\ target_dirs = {}
    /\ run = [pc |-> "start", publications |-> <<>>, idx |-> 0, pdf_idx |-> 0,
              coll_stack |-> <<>>, item_id |-> 0, raised |-> "none",
              report |-> <<>>]
    /\ earlier = <<>>

\* the base path of PubA and PubB held by a file with other bytes
TakenTree ==
    [p \in {build_base_path(PubA, Pdf("f1"))} |-> <<9>>]

Init ==
    /\ key_token = NULL /\ key_result = "unchecked" /\ DateIdle /\ RaceIdle
    /\ FixerIdle
    /\ \E mode \in ModeSamples, test_mode \in BOOLEAN, limit \in {NoLimit, 1},
          pub_file \in BOOLEAN, coll_file \in BOOLEAN,
          pubs \in SeqsUpTo(PubSamples, MaxDocs),
          store \in {EmptyStore, UsedStore},
          dst \in {EmptyMap, TakenTree} :
          /\ ~pub_file => (pubs = <<>> /\ ~coll_file /\ limit = NoLimit)
          /\ mode.files_dir = "invalid" => (pubs = <<>> /\ limit = NoLimit)
          /\ mode.files_dir # "valid" => dst = EmptyMap
          /\ Constructed(
                [test_mode |-> test_mode, limit |-> limit,
                 skip_attachments |-> mode.skip_attachments,
                 files_dir |-> mode.files_dir,
                 files_target_dir |-> mode.files_target_dir,
                 files_only |-> mode.files_only],
                [pub_file |-> pub_file, publications |-> pubs,
                 coll_file |-> coll_file, collections |-> TreeSample],
                store, SourceFiles, dst)

Spec == Init /\ [][Next]_vars

(***************************************************************************)
(* SpecOrg: import runs over destination trees that hold files already     *)
(***************************************************************************)
\* one publication with two attachments of the same extension and
\* different bytes
PubC ==
    [BlankPub("p5") EXCEPT
        !.title = <<"Alpha">>, !.publication_date = <<"2020">>,
        !.authors = <<Smith>>,
        !.pdfs = [kind |-> "list", list |-> <<Pdf("f1"), Pdf("f3")>>]]

\* the k-th candidate of find_available_path: the base path, then _2 .. _10
Candidate(base, k) == IF k = 1 THEN base ELSE [base EXCEPT !.counter = k]

\* the base path and its variants up to the k-th candidate taken by files of
\* other bytes, except the j-th candidate, which holds the bytes of f1 and f2
\* (no candidate holds them when j is past the last variant)
TreeSamples ==
    LET base == build_base_path(PubA, Pdf("f1"))
    IN {[p \in {Candidate(base, i) : i \in 1..k} |->
            IF p = Candidate(base, j) THEN <<1, 2>> ELSE <<9>>] :
        k \in {0, 1, FirstVariant, FirstVariant + 1, LastVariant - 1, LastVariant},
        j \in {1, FirstVariant, LastVariant + 1}}

\* a single root collection
RootOnly ==
    [roots |-> <<1>>,
     nodes |-> << [keys |-> {"name", "uuid"},
                   name |-> <<"Inbox">>, uuid |-> "c1", children |-> <<>>] >>]

InitOrg ==
    /\ key_token = NULL /\ key_result = "unchecked" /\ DateIdle /\ RaceIdle
    /\ FixerIdle
    /\ \E files_only \in BOOLEAN, test_mode \in BOOLEAN,
          pubs \in SeqsUpTo({PubA, PubC, PubFatal}, MaxDocs),
          dst \in TreeSamples :
          Constructed(
             [test_mode |-> test_mode, limit |-> NoLimit,
              skip_attachments |-> FALSE, files_dir |-> "valid",
              files_target_dir |-> TRUE, files_only |-> files_only],
             [pub_file |-> TRUE, publications |-> pubs,
              coll_file |-> TRUE, collections |-> RootOnly],
             EmptyStore, SourceFiles, dst)

SpecOrg == InitOrg /\ [][Next]_vars

(***************************************************************************)
(* SpecIntern: database runs over publications that share creators, tags   *)
(* and field values, with names that hold the separator of the cache key   *)
(***************************************************************************)
\* two creators whose names differ and whose cache key (line 442) is the same
PipeAB_C ==
    [prename |-> <<"a", "|", "b">>, surname |-> <<"c">>, type |-> "author"]

PipeA_BC ==
    [prename |-> <<"a">>, surname |-> <<"b", "|", "c">>, type |-> "editor"]

\* two authors, a keyword, an empty DOI, an attachment with its caption
PubI1 ==
    [BlankPub("i1") EXCEPT
        !.title = <<"Alpha">>, !.doi = <<>>,
        !.authors = <<Smith, PipeAB_C>>,
        !.keywords = << <<"ml">> >>,
        !.pdfs = [kind |-> "list", list |-> <<Pdf("f1")>>]]

\* the title of PubI1, creators of the same cache key as PubI1's, an empty
\* keyword and a repeated one, an empty URL, flagged, an attachment with an
\* empty caption
PubI2 ==
    [BlankPub("i2") EXCEPT
        !.title = <<"Alpha">>, !.url = <<>>, !.volume = <<"7">>,
        !.authors = <<PipeA_BC, Smith>>,
        !.keywords = << <<>>, <<"ml">>, <<"nlp">>, <<"ml">> >>,
        !.flagged = TRUE,
        !.pdfs = [kind |-> "list",
                  list |-> <<[Pdf("f2") EXCEPT !.caption = <<>>]>>]]

\* the creator of the samples alone, the keyword the flag stands for
PubI3 ==
    [BlankPub("i3") EXCEPT
        !.title = <<"Beta">>, !.summary = <<>>, !.notes = <<"note">>,
        !.authors = <<Smith>>,
        !.keywords = << <<"Flagged">> >>,
        !.flagged = TRUE]

InternPubSamples == {PubI1, PubI2, PubI3}

\* a store of an earlier session that holds one of the two creators of the
\* same cache key, a second tag and a second value
PipeStore ==
    [UsedStore EXCEPT
        !.creators = Append(@, [firstName |-> PipeA_BC.prename,
                                lastName |-> PipeA_BC.surname]),
        !.tags = Append(@, [name |-> <<"nlp">>]),
        !.itemDataValues = Append(@, [value |-> <<"7">>])]

InitIntern ==
    /\ key_token = NULL /\ key_result = "unchecked" /\ DateIdle /\ RaceIdle
    /\ FixerIdle
    /\ \E test_mode \in BOOLEAN,
          pubs \in SeqsUpTo(InternPubSamples, MaxDocs),
          store \in {EmptyStore, UsedStore, PipeStore} :
          Constructed(
             [test_mode |-> test_mode, limit |-> NoLimit,
              skip_attachments |-> FALSE, files_dir |-> "None",
              files_target_dir |-> FALSE, files_only |-> FALSE],
             [pub_file |-> TRUE, publications |-> pubs,
              coll_file |-> TRUE, collections |-> RootOnly],
             store, SourceFiles, EmptyMap)

\* the steps of migrate() a database run without --files-dir can take when no
\* exception leaves the loop
NextIntern ==
    \/ Validate
    \/ LoadDocuments
    \/ Connect
    \/ Begin
    \/ MigrateCollections
    \/ ImportCollection
    \/ StartPublications
    \/ MigratePublication
    \/ EnterMigratePdfs
    \/ MigratePdf
    \/ LeaveMigratePdfs
    \/ CommitOrRollback
    \/ Report
    \/ Close

SpecIntern == InitIntern /\ [][NextIntern]_vars

(***************************************************************************)
(* SpecRerun: the tool run a second time on what its first run left        *)
(***************************************************************************)
\* two roots of the same name, the first with a child
TwinTree ==
    [roots |-> <<1, 2>>,
     nodes |-> << [keys |-> {"name", "uuid", "children"},
                   name |-> <<"Inbox">>, uuid |-> "c1", children |-> <<3>>],
                  [keys |-> {"name", "uuid"},
                   name |-> <<"Inbox">>, uuid |-> "c3", children |-> <<>>],
                  [keys |-> {"name", "uuid"},
                   name |-> <<"Sub">>, uuid |-> "c2", children |-> <<>>] >>]

\* a root without a name that has a child, then a well-formed root
NamelessTree ==
    [roots |-> <<1, 3>>,
     nodes |-> << [keys |-> {"uuid", "children"},
                   name |-> None, uuid |-> "c4", children |-> <<2>>],
                  [keys |-> {"name", "uuid"},
                   name |-> <<"Sub">>, uuid |-> "c2", children |-> <<>>],
                  [keys |-> {"name", "uuid"},
                   name |-> <<"Inbox">>, uuid |-> "c1", children |-> <<>>] >>]

\* a root without a uuid that has a child, then a well-formed root
AnonymousTree ==
    [roots |-> <<1, 3>>,
     nodes |-> << [keys |-> {"name", "children"},
                   name |-> <<"Lost">>, uuid |-> "", children |-> <<2>>],
                  [keys |-> {"name", "uuid"},
                   name |-> <<"Sub">>, uuid |-> "c2", children |-> <<>>],
                  [keys |-> {"name", "uuid"},
                   name |-> <<"Inbox">>, uuid |-> "c1", children |-> <<>>] >>]

\* a root whose child has the root's name
EchoTree ==
    [roots |-> <<1>>,
     nodes |-> << [keys |-> {"name", "uuid", "children"},
                   name |-> <<"Inbox">>, uuid |-> "c1", children |-> <<2>>],
                  [keys |-> {"name", "uuid"},
                   name |-> <<"Inbox">>, uuid |-> "c2", children |-> <<>>] >>]

CollectionTreeSamples ==
    {TreeSample, TwinTree, NamelessTree, AnonymousTree, EchoTree}

\* papers3_to_zotero.py:892-957: main() once more, with the same arguments, on
\* the files the run before left: a new migrator (81-126) whose migrate()
\* has not started
Rerun ==
    /\ run.pc = "done"
    /\ earlier = <<>>
    /\ earlier' = [sql_log |-> sql_log, raised |-> run.raised, stats |-> stats,
                   collection_map |-> collection_map, item_map |-> item_map,
                   zotero_db0 |-> zotero_db0, target_fs0 |-> target_fs0]
    /\ zotero_db0' = zotero_db
    /\ zotero_tx' = zotero_db
    /\ target_fs0' = target_fs
    /\ papers3_data' = <<>>
    /\ collections_data' = [roots |-> <<>>, nodes |-> <<>>]
    /\ conn' = "none"
    /\ sql_log' = <<>>
    /\ collection_map' = EmptyMap /\ item_map' = EmptyMap
    /\ creator_map' = EmptyMap /\ tag_map' = EmptyMap
    /\ stats' = InitialStats
    /\ run' = [pc |-> "start", publications |-> <<>>, idx |-> 0, pdf_idx |-> 0,
               coll_stack |-> <<>>, item_id |-> 0, raised |-> "none",
               report |-> <<>>]
    /\ UNCHANGED <<args, catalog, source_fs, zotero_db, target_fs, target_dirs,
                   keyVars, fixVars>>

\* database runs that skip the attachments, over the sample trees, and
\* files-only runs over destination trees that hold files already
InitRerun ==
    /\ key_token = NULL /\ key_result = "unchecked" /\ DateIdle /\ RaceIdle
    /\ FixerIdle
    /\ \/ \E test_mode \in BOOLEAN,
             pubs \in SeqsUpTo({PubA}, MaxDocs),
             tree \in CollectionTreeSamples,
             store \in {EmptyStore, UsedStore} :
             Constructed(
                [test_mode |-> test_mode, limit |-> NoLimit,
                 skip_attachments |-> TRUE, files_dir |-> "None",
                 files_target_dir |-> FALSE, files_only |-> FALSE],
                [pub_file |-> TRUE, publications |-> pubs,
                 coll_file |-> TRUE, collections |-> tree],
                store, SourceFiles, EmptyMap)
       \/ \E test_mode \in BOOLEAN,
             pubs \in SeqsUpTo({PubA, PubB, PubC}, MaxDocs),
             dst \in TreeSamples :
             Constructed(
                [test_mode |-> test_mode, limit |-> NoLimit,
                 skip_attachments |-> FALSE, files_dir |-> "valid",
                 files_target_dir |-> TRUE, files_only |-> TRUE],
                [pub_file |-> TRUE, publications |-> pubs,
                 coll_file |-> FALSE, collections |-> RootOnly],
                EmptyStore, SourceFiles, dst)

\* the steps of the runs of InitRerun (no exception leaves their loops), and
\* the second start
NextRerun ==
    \/ Validate
    \/ LoadDocuments
    \/ Connect
    \/ Begin
    \/ MigrateCollections
    \/ ImportCollection
    \/ StartPublications
    \/ MigratePublication
    \/ EnterMigratePdfs
    \/ MigratePdf
    \/ LeaveMigratePdfs
    \/ CommitOrRollback
    \/ FilesOnlyStart
    \/ FilesOnlyPublication
    \/ FilesOnlyDone
    \/ Report
    \/ Close
    \/ Rerun

SpecRerun == InitRerun /\ [][NextRerun]_vars

(***************************************************************************)
(* A dry run, then the same run without --test                             *)
(***************************************************************************)
\* papers3_to_zotero.py:892-957: main() once more after a run with --test,
\* with the same arguments but --test, on the files the dry run left: a new
\* migrator (81-126) whose migrate() has not started
RerunWithoutTest ==
    /\ run.pc = "done"
    /\ earlier = <<>>
    /\ args.test_mode
    /\ args' = [args EXCEPT !.test_mode = FALSE]
    /\ earlier' = [sql_log |-> sql_log, raised |-> run.raised, stats |-> stats,
                   collection_map |-> collection_map, item_map |-> item_map,
                   zotero_db0 |-> zotero_db0, target_fs0 |-> target_fs0]
    /\ zotero_db0' = zotero_db
    /\ zotero_tx' = zotero_db
    /\ target_fs0' = target_fs
    /\ papers3_data' = <<>>
    /\ collections_data' = [roots |-> <<>>, nodes |-> <<>>]
    /\ conn' = "none"
    /\ sql_log' = <<>>
    /\ collection_map' = EmptyMap /\ item_map' = EmptyMap
    /\ creator_map' = EmptyMap /\ tag_map' = EmptyMap
    /\ stats' = InitialStats
    /\ run' = [pc |-> "start", publications |-> <<>>, idx |-> 0, pdf_idx |-> 0,
               coll_stack |-> <<>>, item_id |-> 0, raised |-> "none",
               report |-> <<>>]
    /\ UNCHANGED <<catalog, source_fs, zotero_db, target_fs, target_dirs,
                   keyVars, fixVars>>

\* dry runs that organize the attachments: database runs on a store with
\* content, files-only runs on an empty tree and on one whose base path is
\* taken
InitDry ==
    /\ key_token = NULL /\ key_result = "unchecked" /\ DateIdle /\ RaceIdle
    /\ FixerIdle
    /\ \E files_only \in BOOLEAN,
          pubs \in SeqsUpTo({PubA, PubB}, MaxDocs),
          dst \in {EmptyMap, TakenTree} :
          /\ ~files_only => dst = EmptyMap
          /\ Constructed(
                [test_mode |-> TRUE, limit |-> NoLimit,
                 skip_attachments |-> FALSE, files_dir |-> "valid",
                 files_target_dir |-> TRUE, files_only |-> files_only],
                [pub_file |-> TRUE, publications |-> pubs,
                 coll_file |-> TRUE, collections |-> TreeSample],
                UsedStore, SourceFiles, dst)

\* the steps of the runs of InitDry (no exception leaves their loops), and
\* the start without --test
NextDry ==
    \/ Validate
    \/ LoadDocuments
    \/ Connect
    \/ Begin
    \/ MigrateCollections
    \/ ImportCollection
    \/ StartPublications
    \/ MigratePublication
    \/ EnterMigratePdfs
    \/ MigratePdf
    \/ LeaveMigratePdfs
    \/ CommitOrRollback
    \/ FilesOnlyStart
    \/ FilesOnlyPublication
    \/ FilesOnlyDone
    \/ Report
    \/ Close
    \/ RerunWithoutTest

SpecDry == InitDry /\ [][NextDry]_vars

(***************************************************************************)
(* Runs with --limit                                                       *)
(***************************************************************************)
\* the values of --limit: not given, and every number from 0 to one more than
\* the longest list
LimitSamples == {NoLimit} \cup (0..MaxDocs + 1)

\* database runs with --skip-attachments and files-only runs, over lists of
\* PubA and PubB, with every value of --limit
InitCap ==
    /\ key_token = NULL /\ key_result = "unchecked" /\ DateIdle /\ RaceIdle
    /\ FixerIdle
    /\ \E files_only \in BOOLEAN, test_mode \in BOOLEAN,
          limit \in LimitSamples,
          pubs \in SeqsUpTo({PubA, PubB}, MaxDocs) :
          Constructed(
             [test_mode |-> test_mode, limit |-> limit,
              skip_attachments |-> ~files_only,
              files_dir |-> IF files_only THEN "valid" ELSE "None",
              files_target_dir |-> files_only, files_only |-> files_only],
             [pub_file |-> TRUE, publications |-> pubs,
              coll_file |-> TRUE, collections |-> TreeSample],
             UsedStore, SourceFiles, EmptyMap)

\* the steps of the runs of InitCap (no exception leaves their loops)
NextCap ==
    \/ Validate
    \/ LoadDocuments
    \/ Connect
    \/ Begin
    \/ MigrateCollections
    \/ ImportCollection
    \/ StartPublications
    \/ MigratePublication
    \/ EnterMigratePdfs
    \/ MigratePdf
    \/ LeaveMigratePdfs
    \/ CommitOrRollback
    \/ FilesOnlyStart
    \/ FilesOnlyPublication
    \/ FilesOnlyDone
    \/ Report
    \/ Close

SpecCap == InitCap /\ [][NextCap]_vars

(***************************************************************************)
(* SpecDate: _convert_publication_date as a pure function of its argument  *)
(***************************************************************************)
DigitChars == <<"0", "1", "2", "3", "4", "5", "6", "7", "8", "9">>

\* int() of a string of decimal digits
RECURSIVE int(_)
int(s) ==
    IF Len(s) = 0 THEN 0
    ELSE 10 * int(SubSeq(s, 1, Len(s) - 1))
         + ((CHOOSE d \in 1..10 : DigitChars[d] = s[Len(s)]) - 1)

\* str() of a natural number: its decimal digits, no leading zero
RECURSIVE str(_)
str(n) ==
    IF n < 10 THEN <<DigitChars[n + 1]>>
    ELSE Append(str(n \div 10), DigitChars[(n % 10) + 1])

\* a number written with at least width digits, zero-filled (%02d, %04d)
RECURSIVE zfill(_, _)
zfill(s, width) == IF Len(s) >= width THEN s ELSE zfill(<<"0">> \o s, width)

\* calendar.monthrange: the days of a month of the proleptic Gregorian calendar
days_in_month(year, month) ==
    IF month = 2
    THEN IF (year % 4 = 0 /\ year % 100 # 0) \/ year % 400 = 0 THEN 29 ELSE 28
    ELSE IF month \in {4, 6, 9, 11} THEN 30 ELSE 31

\* datetime(year, month, day, hour, minute, second) raises ValueError
datetime_raises(year, month, day, hour, minute, second) ==
    \/ year < 1 \/ year > 9999
    \/ month < 1 \/ month > 12
    \/ day < 1 \/ day > days_in_month(year, month)
    \/ hour > 23 \/ minute > 59 \/ second > 59

\* datetime.isoformat() of a datetime without microseconds
isoformat(year, month, day, hour, minute, second) ==
    zfill(str(year), 4) \o <<"-">> \o zfill(str(month), 2) \o <<"-">>
    \o zfill(str(day), 2) \o <<"T">> \o zfill(str(hour), 2) \o <<":">>
    \o zfill(str(minute), 2) \o <<":">> \o zfill(str(second), 2)

\* f"{year}-01-01T00:00:00"
year_only(year) ==
    str(year) \o <<"-", "0", "1", "-", "0", "1", "T",
                   "0", "0", ":", "0", "0", ":", "0", "0">>

\* papers3_publications.py:957-995
convert_publication_date(string) ==
    IF ~Truthy(string) \/ Len(string) < 14 THEN None
    ELSE IF SubSeq(string, 1, 2) = <<"9", "9">> /\ Len(string) >= 16
    THEN LET date_part == SubSeq(string, 3, 16)
             year == int(SubSeq(date_part, 1, 4))
             month0 == int(SubSeq(date_part, 5, 6))
             day0 == int(SubSeq(date_part, 7, 8))
             hour == int(SubSeq(date_part, 9, 10))
             minute == int(SubSeq(date_part, 11, 12))
             second == int(SubSeq(date_part, 13, 14))
             month == IF month0 = 0 THEN 1 ELSE month0
             day == IF day0 = 0 THEN 1 ELSE day0
         IN  IF year < 1900 \/ year > 2100 \/ month < 1 \/ month > 12
                \/ day < 1 \/ day > 31
             THEN year_only(year)
             ELSE IF datetime_raises(year, month, day, hour, minute, second)
             THEN string
             ELSE isoformat(year, month, day, hour, minute, second)
    ELSE string

\* 99YYYYMMDDHHMMSS, the sentinel prefix and the fourteen digits of a date
Encoded(year, month, day, time) ==
    <<"9", "9">> \o zfill(str(year), 4) \o zfill(str(month), 2)
    \o zfill(str(day), 2) \o zfill(str(time[1]), 2) \o zfill(str(time[2]), 2)
    \o zfill(str(time[3]), 2)

\* the strings handed to the parser: None, the empty string, encoded dates
\* with and without the trailing digits of the Papers3 format, an encoded
\* date cut short, and a date in another notation
DateStrings ==
    {None, <<>>, <<"2", "0", "2", "0", "-", "0", "4", "-", "3", "0", "T",
                   "0", "0", ":", "0", "0">>}
    \cup UNION {{Encoded(y, m, d, t),
                 Encoded(y, m, d, t) \o <<"0", "0", "2", "2", "2">>,
                 SubSeq(Encoded(y, m, d, t), 1, 15)} :
                y \in {999, 1899, 1900, 2023, 2024, 2100, 2101},
                m \in {0, 1, 2, 4, 12, 13},
                d \in {0, 1, 29, 30, 31, 32},
                t \in {<<0, 0, 0>>, <<23, 59, 59>>, <<24, 0, 0>>}}

InitDate ==
    /\ key_token = NULL /\ key_result = "unchecked"
    /\ date_string \in DateStrings
    /\ date_result = <<"unconverted">>
    /\ RaceIdle
    /\ FixerIdle
    /\ MigratorIdle

ConvertDate ==
    /\ date_result = <<"unconverted">>
    /\ date_result' = convert_publication_date(date_string)
    /\ UNCHANGED <<key_token, key_result, date_string, resolver, journal_mode,
                   fixVars, migVars>>

NextDate == ConvertDate

SpecDate == InitDate /\ [][NextDate]_vars

(***************************************************************************)
(* SpecRace: two importers resolving creators and tags in one destination   *)
(* file.  Each importer has its own connection; SQLite admits any number   *)
(* of readers and one writer per file, and a connection keeps its locks    *)
(* until its transaction ends.                                             *)
(***************************************************************************)
\* papers3_to_zotero.py:811: after BEGIN TRANSACTION the statements that
\* follow belong to one transaction, which ends at line 843 or 853
begin_transaction_skipped(r) == [r EXCEPT !.pc = "select"]
begin_transaction(r) == [r EXCEPT !.pc = "select", !.in_transaction = TRUE]

\* the natural keys the two importers resolve: a creator the used store
\* holds, a creator and a tag it does not hold
InitRace ==
    /\ key_token = NULL /\ key_result = "unchecked" /\ DateIdle
    /\ FixerIdle
    /\ journal_mode \in {"delete", "wal"}
    /\ \E store \in {EmptyStore, UsedStore},
          work \in [1..2 -> SeqsUpTo(
             {[table |-> "creators",
               row |-> [firstName |-> <<"J">>, lastName |-> <<"Smith">>]],
              [table |-> "creators",
               row |-> [firstName |-> <<"A">>, lastName |-> <<"Lee">>]],
              [table |-> "tags", row |-> [name |-> <<"nlp">>]]},
             MaxDocs) \ {<<>>}] :
          /\ resolver = [p \in 1..2 |->
                [pc |-> "begin", in_transaction |-> FALSE, lock |-> "none",
                 view |-> <<>>, creator_map |-> EmptyMap, tag_map |-> EmptyMap,
                 pending |-> work[p], errors |-> 0, created |-> 0,
                 raised |-> "none"]]
          /\ zotero_db = store /\ zotero_db0 = store
    /\ args = <<>> /\ catalog = <<>> /\ papers3_data = <<>>
    /\ collections_data = <<>> /\ zotero_tx = <<>>
    /\ conn = "none" /\ sql_log = <<>>
    /\ collection_map = EmptyMap /\ item_map = EmptyMap
    /\ creator_map = EmptyMap /\ tag_map = EmptyMap /\ stats = <<>>
    /\ source_fs = EmptyMap /\ target_fs = EmptyMap /\ target_dirs = {}
    /\ target_fs0 = EmptyMap /\ run = [pc |-> "idle"] /\ earlier = <<>>

\* papers3_to_zotero.py:811
RaceBegin(p) ==
    /\ resolver[p].pc = "begin"
    /\ resolver' = [resolver EXCEPT ![p] = begin_transaction(@)]
    /\ UNCHANGED <<key_token, key_result, date_string, date_result,
                   journal_mode, fixVars, migVars>>

\* papers3_to_zotero.py:442-457 and 470-480: the cache, then the SELECT.  A
\* SELECT outside a transaction gives its read lock back at once.
RaceSelect(p) ==
    LET r == resolver[p]
        k == Head(r.pending)
        cache == IF k.table = "creators" THEN r.creator_map ELSE r.tag_map
        key == IF k.table = "creators"
               THEN creator_key(k.row.firstName, k.row.lastName)
               ELSE k.row.name
        view == IF r.lock = "none" THEN zotero_db ELSE r.view
        hits == {i \in 1..Len(view[k.table]) : view[k.table][i] = k.row}
        held == IF r.lock = "none" /\ r.in_transaction THEN "shared" ELSE r.lock
    IN  /\ r.pc = "select" /\ r.pending # <<>>
        /\ resolver' = [resolver EXCEPT ![p] =
              IF key \in DOMAIN cache
              THEN [r EXCEPT !.pending = Tail(@)]
              ELSE IF hits # {}
              THEN [r EXCEPT !.lock = held, !.view = view,
                             !.creator_map = IF k.table = "creators"
                                             THEN Put(@, key, Min(hits)) ELSE @,
                             !.tag_map = IF k.table = "tags"
                                         THEN Put(@, key, Min(hits)) ELSE @,
                             !.pending = Tail(@)]
              ELSE [r EXCEPT !.lock = held, !.view = view, !.pc = "insert"]]
        /\ UNCHANGED <<key_token, key_result, date_string, date_result,
                       journal_mode, fixVars, migVars>>

\* papers3_to_zotero.py:458-466 and 481-490: the INSERT.  It needs the write
\* lock of the file: sqlite3.OperationalError (database is locked) when the
\* other connection holds it, or when this connection reads a snapshot that
\* is no longer the last committed one; the error ends the publication
\* (lines 650-653).  The first INSERT of a connection that is in no
\* transaction opens one.
RaceInsert(p) ==
    LET r == resolver[p]
        k == Head(r.pending)
        key == IF k.table = "creators"
               THEN creator_key(k.row.firstName, k.row.lastName)
               ELSE k.row.name
        view == IF r.lock = "none" THEN zotero_db ELSE r.view
        locked == /\ r.lock # "reserved"
                  /\ \/ \E q \in 1..2 : q # p /\ resolver[q].lock = "reserved"
                     \/ r.lock = "shared" /\ r.view # zotero_db
        new_id == Len(view[k.table]) + 1
    IN  /\ r.pc = "insert"
        /\ resolver' = [resolver EXCEPT ![p] =
              IF locked
              THEN [r EXCEPT !.errors = @ + 1, !.pending = Tail(@),
                             !.pc = "select"]
              ELSE [r EXCEPT !.lock = "reserved", !.in_transaction = TRUE,
                             !.view = [view EXCEPT ![k.table] = Append(@, k.row)],
                             !.created = @ + 1,
                             !.creator_map = IF k.table = "creators"
                                             THEN Put(@, key, new_id) ELSE @,
                             !.tag_map = IF k.table = "tags"
                                         THEN Put(@, key, new_id) ELSE @,
                             !.pending = Tail(@), !.pc = "select"]]
        /\ UNCHANGED <<key_token, key_result, date_string, date_result,
                       journal_mode, fixVars, migVars>>

\* papers3_to_zotero.py:843 and 849-853: commit().  With a rollback journal
\* the writer cannot commit while the other connection holds a read lock:
\* OperationalError, then rollback() and the error is raised again.
RaceCommit(p) ==
    LET r == resolver[p]
        locked == /\ r.lock = "reserved" /\ journal_mode = "delete"
                  /\ \E q \in 1..2 : q # p /\ resolver[q].lock # "none"
    IN  /\ r.pc = "select" /\ r.pending = <<>>
        /\ resolver' = [resolver EXCEPT ![p] =
              [r EXCEPT !.pc = "done", !.lock = "none", !.view = <<>>,
                        !.in_transaction = FALSE,
                        !.raised = IF locked THEN "OperationalError" ELSE "none"]]
        /\ zotero_db' = IF r.lock = "reserved" /\ ~locked THEN r.view
                        ELSE zotero_db
        /\ UNCHANGED <<key_token, key_result, date_string, date_result,
                       journal_mode, fixVars, args, catalog,
                       papers3_data, collections_data, zotero_tx, zotero_db0,
                       conn, sql_log, collection_map, item_map, creator_map,
                       tag_map, stats, source_fs, target_fs, target_dirs,
                       target_fs0, run, earlier>>

NextRace ==
    \/ \E p \in 1..2 : RaceBegin(p)
    \/ \E p \in 1..2 : RaceSelect(p)
    \/ \E p \in 1..2 : RaceInsert(p)
    \/ \E p \in 1..2 : RaceCommit(p)

SpecRace == InitRace /\ [][NextRace]_vars

(***************************************************************************)
(* Properties                                                              *)
(***************************************************************************)
\* the publication raises in migrate_publication after its item row was
\* inserted (line 568)
RaisesInFieldPopulation(pub) == pub.bundle_details.kind = "str"

\* the item row recorded for the publication exists in the committed store
HasRecord(uuid) ==
    uuid \in DOMAIN item_map /\ item_map[uuid] \in 1..Len(zotero_db.items)

\* the run is past the end of its transaction
AfterTransaction == run.pc \in {"report", "finally", "done"}

Committed == sql_log # <<>> /\ sql_log[Len(sql_log)] = "COMMIT"

\* C1: in a committed non-dry run in which exactly one document d raises during
\* field population, every other document has its record in the store, no
\* record row produced for d exists in the store, and the error log holds
\* exactly one entry, naming d.
C1_PartialFailureContainment ==
    \A d \in 1..Len(run.publications) :
        ( /\ AfterTransaction /\ Committed
          /\ ~args.test_mode /\ ~args.files_only
          /\ RaisesInFieldPopulation(run.publications[d])
          /\ \A j \in 1..Len(run.publications) :
                j # d => ~RaisesInFieldPopulation(run.publications[j]) )
        => /\ \A j \in 1..Len(run.publications) :
                j # d => HasRecord(run.publications[j].uuid)
           /\ ~HasRecord(run.publications[d].uuid)
           /\ Len(stats.errors) = 1
           /\ stats.errors[1][1] = "Publication"
           /\ stats.errors[1][2] = run.publications[d].uuid

\* the number of documents of the run that migrate_publication imports
Successful ==
    Cardinality({i \in 1..Len(run.publications) :
                    ~RaisesInFieldPopulation(run.publications[i])})

\* C2: a dry run never changes the committed store, and one that processed K
\* documents successfully ends with the store (file and connection) as it was
\* before the run while stats['items'] is K.
C2_DryRunAtomicity ==
    /\ args.test_mode => zotero_db = zotero_db0
    /\ ( /\ args.test_mode /\ ~args.files_only
         /\ AfterTransaction /\ run.raised = "none" )
       => /\ zotero_tx = zotero_db0
          /\ stats.items = Successful

C2_Witness ==
    /\ args.test_mode /\ run.pc = "done" /\ run.raised = "none"
    /\ zotero_db0 = UsedStore /\ zotero_db = UsedStore
    /\ stats.items = 2 /\ stats.collections > 0 /\ stats.attachments > 0

\* C3: when an exception leaves the loop of a database run, no COMMIT is
\* issued, the transaction is rolled back, the store is as it was before the
\* run, and that exception is what migrate() raises.
C3_UnrecoverableRollback ==
    /\ run.pc = "except" =>
          /\ run.raised # "none"
          /\ \A i \in 1..Len(sql_log) : sql_log[i] # "COMMIT"
    /\ ( /\ ~args.files_only /\ run.raised \notin {"none", "OSError"}
         /\ sql_log # <<>>
         /\ run.pc \in {"finally", "done"} )
       => /\ sql_log = <<"BEGIN", "ROLLBACK">>
          /\ zotero_db = zotero_db0
          /\ zotero_tx = zotero_db0
          /\ run.raised = "TypeError"

C3_Witness ==
    /\ run.pc = "done" /\ run.raised = "TypeError" /\ ~args.test_mode
    /\ sql_log = <<"BEGIN", "ROLLBACK">>
    /\ stats.items = 2 /\ stats.collections > 0
    /\ zotero_db = zotero_db0

\* C4: a run that begins the transaction ends it exactly once, by COMMIT or by
\* ROLLBACK; a dry run ends in ROLLBACK, after the whole loop when nothing
\* unrecoverable happened; a non-dry run with nothing unrecoverable ends in
\* COMMIT, whatever per-record and per-file errors it logged.
C4_CommitDecision ==
    /\ Len(sql_log) <= 2
    /\ sql_log # <<>> => sql_log[1] = "BEGIN"
    /\ Len(sql_log) = 2 => sql_log[2] \in {"COMMIT", "ROLLBACK"}
    /\ (run.pc = "done" /\ sql_log # <<>>)
       => /\ Len(sql_log) = 2
          /\ args.test_mode => sql_log[2] = "ROLLBACK"
          /\ (args.test_mode /\ run.raised = "none")
                => run.idx = Len(run.publications)
          /\ (~args.test_mode /\ run.raised = "none")
                => sql_log[2] = "COMMIT"

C4_Witness ==
    /\ run.pc = "done" /\ ~args.test_mode /\ run.raised = "none"
    /\ sql_log = <<"BEGIN", "COMMIT">>
    /\ stats.errors # <<>> /\ stats.files_missing > 0

\* C5: in a non-dry run no step changes the content of a file that exists
\* under the destination root (a source file is never copied onto a path
\* that holds other content).
C5_NoOverwrite ==
    [][~args.test_mode =>
          \A p \in DOMAIN target_fs :
              p \in DOMAIN target_fs' /\ target_fs'[p] = target_fs[p]]_vars

\* C6: every key of a collection or item row the run inserted satisfies
\* is_valid_key.
C6_GeneratedKeysValid ==
    /\ \A i \in 1..Len(zotero_tx.collections) :
          i > Len(zotero_db0.collections)
             => is_valid_key(zotero_tx.collections[i].key)
    /\ \A i \in 1..Len(zotero_tx.items) :
          i > Len(zotero_db0.items) => is_valid_key(zotero_tx.items[i].key)

\* the keys of the collection and item rows of a store, one entry per row
KeyedRows(db) ==
    {<<"collections", i>> : i \in 1..Len(db.collections)}
    \cup {<<"items", i>> : i \in 1..Len(db.items)}

KeyOfRow(db, r) == db[r[1]][r[2]].key

\* C7: after an import run no two rows of the store (collections and items,
\* old and new) carry the same key.
C7_KeysUnique ==
    run.pc = "done" =>
       \A r1 \in KeyedRows(zotero_db), r2 \in KeyedRows(zotero_db) :
          r1 # r2 => KeyOfRow(zotero_db, r1) # KeyOfRow(zotero_db, r2)

\* C8: the keys generate_valid_key returned in one run are pairwise distinct
\* and none is a key the collections or items table held when the run started.
C8_GeneratedDistinctAndFresh ==
    /\ \A i \in 1..Len(fixer.returned), j \in 1..Len(fixer.returned) :
          i # j => fixer.returned[i] # fixer.returned[j]
    /\ \A i \in 1..Len(fixer.returned) :
          fixer.returned[i] \notin
             (get_existing_keys(fixer_db0.collections)
              \cup get_existing_keys(fixer_db0.items))

\* C9: is_valid_key returns True exactly for the tokens of 8 characters none
\* of which is outside A-Z, 0-9 or among the characters the tool documents as
\* excluded (0, 1, L, O, Y).
C9_IsValidAsDocumented ==
    key_result # "unchecked" =>
       key_result = BoolStr(
          /\ key_token # NULL
          /\ Len(key_token) = KeyLen
          /\ \A i \in 1..Len(key_token) :
                key_token[i] \in (chars \ DocumentedExcluded))

\* C10: a collection or item row whose key is valid before the repair run
\* keeps its key, version and synced flag, in the connection and in the file,
\* throughout the run.
C10_ValidKeysUntouched ==
    \A t \in {"collections", "items"} :
       \A i \in 1..Len(fixer_db0[t]) :
          is_valid_key(fixer_db0[t][i].key)
             => /\ fixer_tx[t][i] = fixer_db0[t][i]
                /\ fixer_db[t][i] = fixer_db0[t][i]

C10_Witness ==
    /\ fixer.pc = "done" /\ ~fixer.dry_run
    /\ fixer.fixed_collection_keys = 1 /\ fixer.fixed_item_keys = 1
    /\ \E i \in 1..Len(fixer_db0.collections) :
          is_valid_key(fixer_db0.collections[i].key)
    /\ \E i \in 1..Len(fixer_db0.items) :
          is_valid_key(fixer_db0.items[i].key)
    /\ fixer_db # fixer_db0

\* a step from row r to row q of the store bumps what a key change must bump
BumpedIfRekeyed(r, q) ==
    /\ q.key # r.key => (q.version = r.version + 1 /\ q.synced = 0)
    /\ q.version >= r.version

\* C11: a step that changes the key of a collection or item row, in the
\* connection or in the file, increases that row's version by exactly 1 and
\* sets it unsynced; no version ever decreases.
C11_RekeyBumpsVersion ==
    [][\A t \in {"collections", "items"} :
          \A i \in 1..Len(fixer_tx[t]) :
             /\ BumpedIfRekeyed(fixer_tx[t][i], fixer_tx'[t][i])
             /\ BumpedIfRekeyed(fixer_db[t][i], fixer_db'[t][i])]_vars

C11_Witness ==
    /\ fixer.pc = "done" /\ ~fixer.dry_run
    /\ \E i \in 1..Len(fixer_db.collections) :
          /\ fixer_db.collections[i].key # fixer_db0.collections[i].key
          /\ fixer_db.collections[i].version
                = fixer_db0.collections[i].version + 1
          /\ fixer_db.collections[i].synced = 0
    /\ \E i \in 1..Len(fixer_db.items) :
          /\ fixer_db.items[i].key # fixer_db0.items[i].key
          /\ fixer_db.items[i].synced = 0

\* the transaction of the run was rolled back
RolledBack == sql_log # <<>> /\ sql_log[Len(sql_log)] = "ROLLBACK"

\* the rows of the creators table with the given names
RowsNamed(creators, firstName, lastName) ==
    {i \in 1..Len(creators) : /\ creators[i].firstName = firstName
                              /\ creators[i].lastName = lastName}

\* the rows of the tags table with the given name
RowsTagged(tags, name) == {i \in 1..Len(tags) : tags[i].name = name}

\* the creatorID of the link the run wrote for author number i of the
\* publication (the set is empty when the publication has no such link)
CreatorLinked(pub, i) ==
    {l.creatorID : l \in {k \in zotero_tx.itemCreators :
                            /\ pub.uuid \in DOMAIN item_map
                            /\ k.itemID = item_map[pub.uuid]
                            /\ k.orderIndex = i - 1}}

\* no row the run inserted has the natural key of another row
OneRowPerNaturalKey ==
    /\ \A i \in 1..Len(zotero_tx.creators) :
          i > Len(zotero_db0.creators)
             => RowsNamed(zotero_tx.creators, zotero_tx.creators[i].firstName,
                          zotero_tx.creators[i].lastName) = {i}
    /\ \A i \in 1..Len(zotero_tx.tags) :
          i > Len(zotero_db0.tags)
             => RowsTagged(zotero_tx.tags, zotero_tx.tags[i].name) = {i}

\* authors of the same names are linked to the same creator id
SameCreatorSameId ==
    ~RolledBack =>
       \A p \in 1..Len(run.publications), q \in 1..Len(run.publications) :
          \A i \in 1..Len(run.publications[p].authors),
             j \in 1..Len(run.publications[q].authors) :
             ( /\ run.publications[p].authors[i].prename
                     = run.publications[q].authors[j].prename
               /\ run.publications[p].authors[i].surname
                     = run.publications[q].authors[j].surname )
             => \A a \in CreatorLinked(run.publications[p], i),
                   b \in CreatorLinked(run.publications[q], j) : a = b

\* an entry of the creator or tag cache, once made, is never changed
CacheKept ==
    /\ \A k \in DOMAIN creator_map :
          k \in DOMAIN creator_map' /\ creator_map'[k] = creator_map[k]
    /\ \A k \in DOMAIN tag_map :
          k \in DOMAIN tag_map' /\ tag_map'[k] = tag_map[k]

\* C12: within one run the id a creator or tag was resolved to never changes,
\* authors of the same names are linked to the same creator row, and no row
\* the run inserted shares its natural key with another row of the table.
C12_InternerIdempotent ==
    /\ [](OneRowPerNaturalKey /\ SameCreatorSameId)
    /\ [][CacheKept]_vars

C12_Witness ==
    /\ run.pc = "done" /\ Committed /\ zotero_db0 = EmptyStore
    /\ run.publications = <<PubI1, PubI3>>
    /\ RowsNamed(zotero_db.creators, Smith.prename, Smith.surname) = {1}
    /\ Cardinality({l \in zotero_db.itemCreators : l.creatorID = 1}) = 2
    /\ Len(zotero_db.creators) = 2

\* the rows of the value table that hold the value
RowsValued(values, value) == {i \in 1..Len(values) : values[i].value = value}

\* an author whose names a creator row held before the run is linked to such
\* a row
CreatorReused ==
    ~RolledBack =>
       \A p \in 1..Len(run.publications) :
          \A i \in 1..Len(run.publications[p].authors) :
             LET before == RowsNamed(zotero_db0.creators,
                              run.publications[p].authors[i].prename,
                              run.publications[p].authors[i].surname)
             IN before # {}
                   => CreatorLinked(run.publications[p], i) \subseteq before

\* a tag name a row held before the run is resolved to such a row
TagReused ==
    \A n \in DOMAIN tag_map :
       RowsTagged(zotero_db0.tags, n) # {}
          => tag_map[n] \in RowsTagged(zotero_db0.tags, n)

\* a title a value row held before the run is linked through such a row
ValueReused ==
    ~RolledBack =>
       \A p \in 1..Len(run.publications) :
          LET pub == run.publications[p]
              before == RowsValued(zotero_db0.itemDataValues, pub.title)
          IN (pub.uuid \in DOMAIN item_map /\ before # {})
                => \A l \in zotero_tx.itemData :
                      (l.itemID = item_map[pub.uuid]
                       /\ l.fieldID = FIELD_IDS.title)
                         => l.valueID \in before

\* no row the run inserted has the natural key of a row held before the run
NoRowBesideExisting ==
    /\ \A i \in 1..Len(zotero_tx.creators) :
          i > Len(zotero_db0.creators)
             => RowsNamed(zotero_db0.creators, zotero_tx.creators[i].firstName,
                          zotero_tx.creators[i].lastName) = {}
    /\ \A i \in 1..Len(zotero_tx.tags) :
          i > Len(zotero_db0.tags)
             => RowsTagged(zotero_db0.tags, zotero_tx.tags[i].name) = {}
    /\ \A i \in 1..Len(zotero_tx.itemDataValues) :
          i > Len(zotero_db0.itemDataValues)
             => RowsValued(zotero_db0.itemDataValues,
                           zotero_tx.itemDataValues[i].value) = {}

\* the creation counters are the numbers of rows the run inserted
CountersCountInserts ==
    ~RolledBack =>
       /\ stats.creators = Len(zotero_tx.creators) - Len(zotero_db0.creators)
       /\ stats.tags = Len(zotero_tx.tags) - Len(zotero_db0.tags)

\* C13: a creator, tag or value whose natural key a row of the store held
\* before the run is resolved to that row and no row is inserted for it, and
\* the counters creators and tags equal the numbers of rows the run inserted.
C13_ReuseAndCounters ==
    /\ CreatorReused
    /\ TagReused
    /\ ValueReused
    /\ NoRowBesideExisting
    /\ CountersCountInserts

\* a null or empty-string literal
Absent(value) == value = None \/ value = <<>>

\* the scalar fields of a publication that migrate_publication hands to
\* add_item_data as they are
ScalarFields(pub) ==
    << <<"title", pub.title>>, <<"DOI", pub.doi>>, <<"url", pub.url>>,
       <<"volume", pub.volume>>, <<"issue", pub.number>>,
       <<"publisher", pub.publisher>>, <<"language", pub.language>> >>

\* the item has a link for the field
HasField(item_id, field_name) ==
    \E l \in zotero_tx.itemData :
       l.itemID = item_id /\ l.fieldID = FIELD_IDS[field_name]

\* C14: no value row the run inserted holds a null or empty value, no link the
\* run created refers to one, and a field populated with a null or empty
\* literal (a scalar field of a publication, the caption of an attachment)
\* has no link.
C14_NoEmptyValues ==
    /\ \A i \in 1..Len(zotero_tx.itemDataValues) :
          i > Len(zotero_db0.itemDataValues)
             => ~Absent(zotero_tx.itemDataValues[i].value)
    /\ \A l \in zotero_tx.itemData \ zotero_db0.itemData :
          /\ l.valueID \in 1..Len(zotero_tx.itemDataValues)
          /\ ~Absent(zotero_tx.itemDataValues[l.valueID].value)
    /\ ~RolledBack =>
          \A p \in 1..Len(run.publications) :
             LET pub == run.publications[p]
             IN pub.uuid \in DOMAIN item_map =>
                   /\ \A f \in 1..Len(ScalarFields(pub)) :
                         Absent(ScalarFields(pub)[f][2])
                            => ~HasField(item_map[pub.uuid],
                                         ScalarFields(pub)[f][1])
                   /\ \A a \in zotero_tx.itemAttachments :
                         ( /\ a.parentItemID = item_map[pub.uuid]
                           /\ \A k \in 1..Len(pub.pdfs.list) :
                                 Absent(pub.pdfs.list[k].caption) )
                         => ~HasField(a.itemID, "title")

C14_Witness ==
    /\ run.pc = "done" /\ Committed
    /\ run.publications = <<PubI1, PubI2>>
    /\ HasField(item_map["i2"], "title") /\ HasField(item_map["i2"], "volume")
    /\ ~HasField(item_map["i2"], "url") /\ ~HasField(item_map["i1"], "DOI")
    /\ \E a \in zotero_db.itemAttachments :
          a.parentItemID = item_map["i2"] /\ ~HasField(a.itemID, "title")

\* migrate_collections of the running migrate() has returned
CollectionsImported ==
    run.pc \in {"loop", "pdfs", "pdf_loop", "except", "report", "finally",
                "done"}

\* the run before this one was a database run that committed
EarlierCommitted ==
    earlier # <<>> /\ earlier.sql_log = <<"BEGIN", "COMMIT">>

\* C15: a database run on the store a committed run over the same tree left
\* creates no collection (the counter stays 0, the table is as it was) and,
\* once its tree is imported, holds the id-map the first run ended with.
C15_HierarchyIdempotent ==
    (EarlierCommitted /\ ~args.files_only) =>
       /\ stats.collections = 0
       /\ zotero_tx.collections = zotero_db0.collections
       /\ CollectionsImported => collection_map = earlier.collection_map

C15_Witness ==
    /\ EarlierCommitted /\ run.pc = "done" /\ Committed
    /\ catalog.collections = TwinTree
    /\ earlier.zotero_db0 = EmptyStore
    /\ earlier.stats.collections = 2
    /\ DOMAIN collection_map = {"c1", "c2", "c3"}
    /\ collection_map = earlier.collection_map
    /\ Len(zotero_db.collections) = 2

\* the node and the nodes below it in the tree
RECURSIVE Below(_, _)
Below(nodes, n) ==
    {n} \cup (IF "children" \in nodes[n].keys
              THEN UNION {Below(nodes, nodes[n].children[i]) :
                             i \in 1..Len(nodes[n].children)}
              ELSE {})

\* the nodes of the loaded tree
TreeNodes ==
    UNION {Below(collections_data.nodes, collections_data.roots[i]) :
              i \in 1..Len(collections_data.roots)}

\* the nodes whose lookup fails (collection['name'] raises at line 382) and
\* those whose import fails at all
LookupFails(n) == "name" \notin collections_data.nodes[n].keys
ImportFails(n) ==
    LookupFails(n) \/ "uuid" \notin collections_data.nodes[n].keys

\* the nodes that are, or are below, a node of the set
Under(S) == UNION {Below(collections_data.nodes, n) : n \in S}

\* the rows of the collections table the run inserted
InsertedCollections ==
    {i \in 1..Len(zotero_tx.collections) : i > Len(zotero_db0.collections)}

\* C16: when the lookup of a node fails, the error is appended to the error
\* log, the node and the nodes below it get no id-map entry and no row, the
\* nodes outside the failed subtrees are imported, and the run commits.
C16_HierarchyFailurePolicy ==
    (CollectionsImported /\ ~args.files_only) =>
       LET nodes == collections_data.nodes
           lost == Under({n \in TreeNodes : LookupFails(n)})
           skipped == Under({n \in TreeNodes : ImportFails(n)})
           tops == {n \in TreeNodes :
                      /\ ImportFails(n)
                      /\ \A m \in TreeNodes :
                            (m # n /\ ImportFails(m))
                               => n \notin Below(nodes, m)}
       IN /\ \A n \in lost :
                /\ "uuid" \in nodes[n].keys
                      => nodes[n].uuid \notin DOMAIN collection_map
                /\ "name" \in nodes[n].keys
                      => \A i \in InsertedCollections :
                            zotero_tx.collections[i].collectionName
                               # nodes[n].name
          /\ Cardinality({i \in 1..Len(stats.errors) :
                             stats.errors[i][1] = "Collection"})
                = Cardinality(tops)
          /\ ~RolledBack =>
                \A n \in TreeNodes \ skipped :
                   /\ nodes[n].uuid \in DOMAIN collection_map
                   /\ collection_map[nodes[n].uuid]
                         \in 1..Len(zotero_tx.collections)
                   /\ zotero_tx.collections[collection_map[nodes[n].uuid]]
                         .collectionName = nodes[n].name
          /\ (run.pc = "done" /\ ~args.test_mode) => Committed

C16_Witness ==
    /\ run.pc = "done" /\ Committed /\ earlier = <<>>
    /\ collections_data = NamelessTree
    /\ zotero_db0 = EmptyStore
    /\ stats.errors = << <<"Collection", "KeyError">> >>
    /\ DOMAIN collection_map = {"c1"}
    /\ Len(zotero_db.collections) = 1
    /\ stats.items > 0

\* the files under the destination root that this run put there
CopiedInRun == {p \in DOMAIN target_fs : p \notin DOMAIN target_fs0}

\* C17: in a non-dry run, when an attachment is organized whose bytes this run
\* already copied for an attachment of the same base path, the step copies
\* nothing: the tree and the copied counter are unchanged and the skipped
\* counter grows by one.
C17_SecondIdenticalIsDuplicate ==
    [][( /\ run.pc = "pdf_loop"
         /\ run'.pc = "pdf_loop"
         /\ run'.pdf_idx = run.pdf_idx + 1
         /\ ~args.test_mode
         /\ args.files_dir = "valid" /\ args.files_target_dir
         /\ LET pub == run.publications[run.idx + 1]
                pdf == pub.pdfs.list[run.pdf_idx + 1]
            IN /\ pdf.path \in DOMAIN source_fs
               /\ \E p \in CopiedInRun :
                     /\ target_fs[p] = source_fs[pdf.path]
                     /\ p.parent = build_base_path(pub, pdf).parent
                     /\ p.suffix = build_base_path(pub, pdf).suffix )
       => /\ target_fs' = target_fs
          /\ stats'.files_copied = stats.files_copied
          /\ stats'.files_skipped = stats.files_skipped + 1]_vars

\* C18: when a non-dry run has organized the attachments, a second run over
\* the same list against the tree the first one left copies no file and
\* leaves every destination file as it was.
C18_RerunCopiesNothing ==
    (earlier # <<>> /\ ~args.test_mode)
        => /\ stats.files_copied = 0
           /\ target_fs = target_fs0

\* the attachments are organized into the destination tree
Organizing == args.files_dir = "valid" /\ args.files_target_dir

\* the attachments of the run's documents whose source file does not exist,
\* over the documents whose attachments are processed
MissingAttachments ==
    {<<i, k>> \in (1..Len(run.publications)) \X (1..MaxDocs + 1) :
        LET pub == run.publications[i]
        IN /\ args.files_only \/ ~RaisesInFieldPopulation(pub)
           /\ pub.pdfs.kind = "list"
           /\ k <= Len(pub.pdfs.list)
           /\ pub.pdfs.list[k].kind = "dict"
           /\ pub.pdfs.list[k].path # ""
           /\ pub.pdfs.list[k].path \notin DOMAIN source_fs}

\* the step of the attachment loop taken for an attachment without source file
MissingSourceStep ==
    /\ run.pc = "pdf_loop"
    /\ run'.pdf_idx = run.pdf_idx + 1
    /\ Organizing
    /\ LET pdf == run.publications[run.idx + 1].pdfs.list[run.pdf_idx + 1]
       IN pdf.kind = "dict" /\ pdf.path # "" /\ pdf.path \notin DOMAIN source_fs

PhaseRank(pc) ==
    CASE pc = "start" -> 0
      [] pc = "load" -> 1
      [] pc \in {"connect", "begin"} -> 2
      [] pc \in {"collections", "import_collection"} -> 3
      [] pc \in {"loop", "pdfs", "pdf_loop"} -> 4
      [] pc = "except" -> 5
      [] pc = "report" -> 6
      [] OTHER -> 7

\* a step of a database run keeps the order of the phases and writes the
\* store only inside the open transaction, containers before records
OrderedStep ==
    /\ PhaseRank(run'.pc) >= PhaseRank(run.pc)
    /\ (zotero_tx' # zotero_tx /\ sql_log' = sql_log)
          => /\ catalog.pub_file /\ papers3_data = catalog.publications
             /\ PhaseRank(run.pc) \in {3, 4}
             /\ conn = "open"
             /\ sql_log = <<"BEGIN">>
    /\ zotero_db' # zotero_db
          => sql_log = <<"BEGIN">> /\ sql_log' = <<"BEGIN", "COMMIT">>
    /\ Len(zotero_tx'.collections) > Len(zotero_tx.collections)
          => /\ run.pc = "import_collection"
             /\ Len(zotero_tx.items) = Len(zotero_db0.items)
    /\ Len(zotero_tx'.items) > Len(zotero_tx.items)
          => /\ run.pc \in {"loop", "pdf_loop"}
             /\ run.coll_stack = <<>>
    /\ sql_log' # sql_log
          => \/ /\ run.pc = "begin" /\ sql_log = <<>>
                /\ sql_log' = <<"BEGIN">>
                /\ papers3_data = catalog.publications
             \/ /\ run.pc \in {"loop", "except"} /\ sql_log = <<"BEGIN">>
                /\ sql_log' \in {<<"BEGIN", "COMMIT">>, <<"BEGIN", "ROLLBACK">>}

\* C20: the positions of a database run only move forward through Start,
\* LoadDocuments, ImportContainers, ImportRecordsLoop, Commit or Rollback,
\* Report; the store is written only after the documents are loaded and inside
\* the one transaction, every container row before the first record row; the
\* report comes after the end of the transaction, and a files-only run writes
\* no row and begins no transaction.
C20_PhaseOrdering ==
    /\ [][~args.files_only => OrderedStep]_vars
    /\ []( /\ (run.pc = "report" /\ ~args.files_only) => Len(sql_log) = 2
           /\ run.report # <<>> => run.pc \in {"finally", "done"}
           /\ (run.pc = "done" /\ sql_log # <<>>)
                 => Len(sql_log) = 2 /\ zotero_tx = zotero_db
           /\ sql_log = <<>> => zotero_tx = zotero_db0 /\ zotero_db = zotero_db0
           /\ args.files_only => sql_log = <<>> )

C20_Witness ==
    /\ run.pc = "done" /\ ~args.files_only /\ ~args.test_mode
    /\ sql_log = <<"BEGIN", "COMMIT">>
    /\ run.report # <<>>
    /\ Len(zotero_db.collections) > Len(zotero_db0.collections)
    /\ Len(zotero_db.items) >= Len(zotero_db0.items) + 3

\* C21: without the publications file the run raises FileNotFoundError with
\* no connection opened, no transaction begun, no row, no file and no counter
\* changed; without the collections file alone the run goes on with an empty
\* tree, creates no collection and imports the records.
C21_LoadFailure ==
    /\ (~catalog.pub_file /\ PhaseRank(run.pc) > 1 /\ run.pc # "exit")
          => /\ run.raised = "FileNotFoundError"
             /\ run.pc \in {"finally", "done"}
    /\ run.raised = "FileNotFoundError"
          => /\ ~catalog.pub_file
             /\ conn = "none" /\ sql_log = <<>>
             /\ zotero_tx = zotero_db0 /\ zotero_db = zotero_db0
             /\ target_fs = target_fs0 /\ target_dirs = {}
             /\ stats = InitialStats
             /\ run.report = <<>>
    /\ (catalog.pub_file /\ ~catalog.coll_file /\ ~args.files_only)
          => /\ zotero_tx.collections = zotero_db0.collections
             /\ stats.collections = 0
             /\ collection_map = EmptyMap
             /\ (run.pc = "done" /\ run.raised = "none")
                   => /\ run.idx = Len(limited(catalog.publications, args.limit))
                      /\ stats.items = Successful
                      /\ ~args.test_mode =>
                            Len(zotero_db.items) >=
                               Len(zotero_db0.items) + Successful

C21_Witness ==
    /\ run.pc = "done" /\ run.raised = "FileNotFoundError"
    /\ ~catalog.pub_file
    /\ zotero_db0 = UsedStore /\ ~args.test_mode
    /\ args.files_dir = "valid" /\ args.files_target_dir

\* a step that uses the connection: a statement that changes the
\* connection's view or the file, or BEGIN, COMMIT or ROLLBACK
UsesConnection ==
    zotero_tx' # zotero_tx \/ zotero_db' # zotero_db \/ sql_log' # sql_log

\* C22: a run that opened the connection has closed it when migrate() returns
\* or raises, whatever the way out (commit, rollback of a dry run, rollback
\* after an exception, an exception while reporting); the connection is used
\* only while open; a files-only run opens none.
C22_ConnectionRelease ==
    /\ []( /\ run.pc = "done" => conn # "open"
           /\ (run.pc = "done" /\ sql_log # <<>>) => conn = "closed"
           /\ conn = "closed" => run.pc = "done"
           /\ conn # "none" => ~args.files_only )
    /\ [][UsesConnection => (conn = "open" /\ conn' = "open")]_vars

C22_Witness ==
    /\ run.pc = "done" /\ conn = "closed"
    /\ run.raised = "OSError"
    /\ sql_log = <<"BEGIN", "COMMIT">>
    /\ zotero_db # zotero_db0

\* C23: when migrate() returns or raises after a run that began its
\* transaction, whether it ended in COMMIT or in ROLLBACK, the final counts
\* have been reported.
C23_AlwaysReports ==
    (run.pc = "done" /\ sql_log # <<>>) => run.report # <<>>

\* C24: a files-only run opens no connection, begins no transaction, leaves
\* every table as it was and records no collection, item, creator or tag;
\* of the statistics only the counters of the files change, and the error
\* list holds nothing but file copy errors.
C24_FilesOnlyLeavesStore ==
    args.files_only
    => /\ conn = "none" /\ sql_log = <<>>
       /\ zotero_tx = zotero_db0 /\ zotero_db = zotero_db0
       /\ collection_map = EmptyMap /\ item_map = EmptyMap
       /\ creator_map = EmptyMap /\ tag_map = EmptyMap
       /\ [stats EXCEPT !.files_found = 0, !.files_copied = 0,
                        !.files_skipped = 0, !.files_missing = 0,
                        !.missing_files = <<>>, !.errors = <<>>] = InitialStats
       /\ \A i \in 1..Len(stats.errors) :
             stats.errors[i][1] = "File copy error"

C24_Witness ==
    /\ args.files_only /\ ~args.test_mode /\ run.pc = "done"
    /\ zotero_db0 = UsedStore
    /\ stats.files_copied = 1 /\ stats.files_skipped = 1
    /\ stats.files_missing = 1
    /\ target_fs # target_fs0

\* the documents of the run have pairwise different identifiers
DistinctIdentifiers ==
    \A i, j \in 1..Len(run.publications) :
        run.publications[i].uuid = run.publications[j].uuid => i = j

\* the item rows the run created for documents (attachment items apart)
RecordRows ==
    {i \in 1..Len(zotero_tx.items) :
        /\ i > Len(zotero_db0.items)
        /\ zotero_tx.items[i].itemTypeID # AttachmentItemType}

\* the values of the item's extra field
ExtraOf(item_id) ==
    {zotero_tx.itemDataValues[l.valueID].value :
        l \in {m \in zotero_tx.itemData :
                  m.itemID = item_id /\ m.fieldID = FIELD_IDS["extra"]}}

\* the text holds "Papers3 UUID: " followed by the identifier
Embeds(value, uuid) ==
    \E k \in 1..Len(value) - 1 :
        value[k] = "Papers3 UUID: " /\ value[k + 1] = uuid

\* every record row of the run is the image of one identifier, which its
\* extra field embeds
RecordsMapBack ==
    \A i \in RecordRows :
        \E u \in DOMAIN item_map :
            /\ item_map[u] = i
            /\ \A w \in DOMAIN item_map : item_map[w] = i => w = u
            /\ \E value \in ExtraOf(i) : Embeds(value, u)

\* C25: in a run over documents of pairwise different identifiers, item_map
\* is injective, and every item row created for a document is the image of
\* exactly one identifier, which the row's extra field embeds.
C25_RecordMapping ==
    DistinctIdentifiers
    => /\ \A u, w \in DOMAIN item_map : item_map[u] = item_map[w] => u = w
       /\ RecordsMapBack

\* C26: when a dry run and then a run without --test over the same documents
\* have both ended without an exception, from the same store and the same
\* destination tree, the counters of the two runs are equal.
C26_DryRunStatistics ==
    ( /\ earlier # <<>> /\ run.pc = "done"
      /\ run.raised = "none" /\ earlier.raised = "none"
      /\ zotero_db0 = earlier.zotero_db0
      /\ target_fs0 = earlier.target_fs0 )
    => /\ stats.collections = earlier.stats.collections
       /\ stats.items = earlier.stats.items
       /\ stats.attachments = earlier.stats.attachments
       /\ stats.creators = earlier.stats.creators
       /\ stats.tags = earlier.stats.tags
       /\ stats.files_copied = earlier.stats.files_copied
       /\ stats.files_skipped = earlier.stats.files_skipped
       /\ stats.files_missing = earlier.stats.files_missing

\* min(L, N) for a cap L, N when no cap is given
Capped(limit, n) ==
    IF limit = NoLimit THEN n ELSE IF limit < n THEN limit ELSE n

\* the number of attachments of the first n documents
RECURSIVE AttachmentsOfFirst(_, _)
AttachmentsOfFirst(pubs, n) ==
    IF n = 0 THEN 0
    ELSE AttachmentsOfFirst(pubs, n - 1) + Len(pubs[n].pdfs.list)

\* C27: a run that ends without an exception has looped over exactly the
\* first min(L, N) documents of the list, in the order of the list, for every
\* cap L >= 0, and over all N when no cap is given: those documents and no
\* others have records (database run) or had their attachments looked up
\* (files-only run).
C27_RecordCap ==
    (run.pc = "done" /\ run.raised = "none")
    => LET n == Capped(args.limit, Len(catalog.publications))
       IN /\ run.publications = SubSeq(catalog.publications, 1, n)
          /\ run.idx = n
          /\ ~args.files_only =>
                /\ stats.items = n
                /\ DOMAIN item_map =
                      {catalog.publications[i].uuid : i \in 1..n}
                /\ \A i, j \in 1..n :
                      ( /\ i < j
                        /\ catalog.publications[i].uuid
                              # catalog.publications[j].uuid )
                      => item_map[catalog.publications[i].uuid]
                            < item_map[catalog.publications[j].uuid]
          /\ args.files_only =>
                stats.files_found + stats.files_missing =
                   AttachmentsOfFirst(catalog.publications, n)

\* the candidate is free in the tree or holds the bytes of the source
Qualifies(fs, source, path) == path \notin DOMAIN fs \/ fs[path] = source

\* what find_available_path answers for the source file in the tree as it is
\* now (every sample publication builds the base path of PubA)
Resolved(f) ==
    find_available_path(target_fs, source_fs[f],
                        build_base_path(PubA, Pdf("f1")), PubA.uuid)

\* C28: in every tree a run goes through and for every source file: a base
\* path that does not exist is returned as not a duplicate; when the base path
\* holds other bytes and some candidate among base, _2 .. _10 is free or holds
\* the bytes of the source, the first such candidate is returned, as a
\* duplicate exactly when it exists.
C28_ProbingOrder ==
    \A f \in DOMAIN source_fs :
        LET base == build_base_path(PubA, Pdf("f1"))
            source == source_fs[f]
            qualifying == {k \in 1..LastVariant :
                              Qualifies(target_fs, source, Candidate(base, k))}
        IN /\ base \notin DOMAIN target_fs
                => Resolved(f) = [path |-> base, is_duplicate |-> FALSE]
           /\ ( /\ base \in DOMAIN target_fs
                /\ target_fs[base] # source
                /\ qualifying # {} )
                => \E k \in qualifying :
                      /\ \A j \in qualifying : k <= j
                      /\ Resolved(f).path = Candidate(base, k)
                      /\ Resolved(f).is_duplicate
                            = (Candidate(base, k) \in DOMAIN target_fs)

\* a run copied a file to the variant _3 past a base path and a variant _2
\* that hold other bytes, and the next probe finds it there
C28_Witness ==
    LET base == build_base_path(PubA, Pdf("f1"))
    IN /\ ~args.test_mode
       /\ Candidate(base, 3) \in CopiedInRun
       /\ target_fs[base] # source_fs["f1"]
       /\ target_fs[Candidate(base, 2)] # source_fs["f1"]
       /\ Resolved("f1") = [path |-> Candidate(base, 3), is_duplicate |-> TRUE]
       /\ Resolved("f3").path = Candidate(base, 4)

\* the nodes of the loaded tree that have the node among their children
ParentsOf(n) ==
    {p \in TreeNodes :
        /\ "children" \in collections_data.nodes[p].keys
        /\ \E i \in 1..Len(collections_data.nodes[p].children) :
              collections_data.nodes[p].children[i] = n}

\* the root nodes of the loaded tree
RootNodes ==
    {collections_data.roots[i] : i \in 1..Len(collections_data.roots)}

\* the node has an id-map entry
Mapped(n) ==
    /\ "uuid" \in collections_data.nodes[n].keys
    /\ collections_data.nodes[n].uuid \in DOMAIN collection_map

\* the rows of the transaction exist: it is open or was committed
RowsExist == sql_log = <<"BEGIN">> \/ Committed

\* the row a mapped node resolved to has the node's name and, as parent, the
\* row its source parent is mapped to (none for a root)
ResolvedUnderParent ==
    \A n \in TreeNodes :
        Mapped(n) =>
           LET node == collections_data.nodes[n]
               id == collection_map[node.uuid]
           IN /\ id \in 1..Len(zotero_tx.collections)
              /\ zotero_tx.collections[id].collectionName = node.name
              /\ n \in RootNodes
                    => zotero_tx.collections[id].parentCollectionID = 0
              /\ \A p \in ParentsOf(n) :
                    /\ Mapped(p)
                    /\ zotero_tx.collections[id].parentCollectionID
                          = collection_map[collections_data.nodes[p].uuid]

\* the calls of import_collection still to be made carry the id their parent
\* is mapped to
PendingUnderParent ==
    \A k \in 1..Len(run.coll_stack) :
        LET call == run.coll_stack[k]
        IN /\ call.node \in RootNodes => call.parent_id = 0
           /\ \A p \in ParentsOf(call.node) :
                 /\ Mapped(p)
                 /\ call.parent_id
                       = collection_map[collections_data.nodes[p].uuid]

\* a step that inserts a collection row inserts one row, of version 0 and
\* unsynced, whose name and parent no row had together
InsertsOnlyNew ==
    Len(zotero_tx'.collections) > Len(zotero_tx.collections)
    => /\ Len(zotero_tx'.collections) = Len(zotero_tx.collections) + 1
       /\ LET row == zotero_tx'.collections[Len(zotero_tx'.collections)]
          IN /\ row.version = 0 /\ row.synced = 0
             /\ \A i \in 1..Len(zotero_tx.collections) :
                   ~ /\ zotero_tx.collections[i].collectionName
                           = row.collectionName
                     /\ zotero_tx.collections[i].parentCollectionID
                           = row.parentCollectionID

\* C29: a node is mapped before its children are looked up: every row a node
\* resolved to, created or reused, has the node's name and as parent the id
\* its source parent is mapped to (no parent for a root), the pending calls
\* for children carry that id; a row is created only when no row has both the
\* name and the parent, with version 0 and unsynced.
C29_ParentResolution ==
    /\ []( (~args.files_only /\ RowsExist)
              => ResolvedUnderParent /\ PendingUnderParent )
    /\ [][InsertsOnlyNew]_vars

C29_Witness ==
    /\ run.pc = "done" /\ Committed /\ earlier = <<>>
    /\ collections_data = EchoTree
    /\ zotero_db0 = UsedStore
    /\ collection_map = [u \in {"c1", "c2"} |-> IF u = "c1" THEN 1 ELSE 2]
    /\ zotero_db.collections[2].collectionName = <<"Inbox">>
    /\ zotero_db.collections[2].parentCollectionID = 1
    /\ zotero_db.collections[2].version = 0
    /\ stats.collections = 1

\* no key that is not NULL is the key of two rows of the table
KeysDistinct(table) ==
    \A i, j \in 1..Len(table) :
        (table[i].key # NULL /\ table[i].key = table[j].key) => i = j

\* C30: when a repair run without --dry-run has committed and ended, every
\* key of the collections and items tables that is not NULL is valid, no such
\* key is the key of two rows of one table, and the counts of keys fixed equal
\* the counts of keys found invalid.
C30_RepairPostcondition ==
    (fixer.pc = "done" /\ ~fixer.dry_run)
    => /\ \A t \in {"collections", "items"} :
             /\ \A i \in 1..Len(fixer_db[t]) :
                   fixer_db[t][i].key # NULL => is_valid_key(fixer_db[t][i].key)
             /\ KeysDistinct(fixer_db[t])
       /\ fixer.fixed_collection_keys = fixer.invalid_collection_keys
       /\ fixer.fixed_item_keys = fixer.invalid_item_keys

\* the directories under the destination root that hold the files of the tree
DirsOf(fs) == UNION {{<<p.parent[1]>>, p.parent} : p \in DOMAIN fs}

\* C31: in a run with --test the files under the destination root are the
\* files that were there before the run, with their content, and no directory
\* exists under it that did not exist before the run.
C31_TestModeTouchesNothing ==
    args.test_mode
    => /\ target_fs = target_fs0
       /\ target_dirs \subseteq DirsOf(target_fs0)

\* a string of at least sixteen decimal digits that starts with the prefix 99
SentinelDate(string) ==
    /\ string # None /\ Len(string) >= 16
    /\ \A i \in 1..Len(string) : \E d \in 1..10 : DigitChars[d] = string[i]
    /\ SubSeq(string, 1, 2) = <<"9", "9">>

\* the field of a sentinel date written at positions from..to
Field(string, from, to) == int(SubSeq(string, from, to))

\* a month or a day written 00 is read as 1
ZeroAsOne(n) == IF n = 0 THEN 1 ELSE n

\* C32: for a digit string with the prefix 99, month 00 and day 00 are read
\* as 1; a year outside 1900..2100, a month above 12 or a day the month does
\* not have gives <year>-01-01T00:00:00; a date of the calendar with a valid
\* time of day gives that date in ISO notation.
C32_DateDegradation ==
    (date_result # <<"unconverted">> /\ SentinelDate(date_string))
    => LET year == Field(date_string, 3, 6)
           month == ZeroAsOne(Field(date_string, 7, 8))
           day == ZeroAsOne(Field(date_string, 9, 10))
           hour == Field(date_string, 11, 12)
           minute == Field(date_string, 13, 14)
           second == Field(date_string, 15, 16)
           degrades == \/ year < 1900 \/ year > 2100
                       \/ month > 12
                       \/ day > days_in_month(year, month)
       IN  /\ degrades => date_result = year_only(year)
           /\ (~degrades /\ hour <= 23 /\ minute <= 59 /\ second <= 59)
              => date_result = isoformat(year, month, day, hour, minute, second)

\* no creator and no tag has two rows in the store
NoTwoRows(store) ==
    /\ \A i \in 1..Len(store.creators) :
          RowsNamed(store.creators, store.creators[i].firstName,
                    store.creators[i].lastName) = {i}
    /\ \A i \in 1..Len(store.tags) : RowsTagged(store.tags, store.tags[i].name) = {i}

\* C33: when two importers run at the same time on one destination file
\* and resolve the same creator or the same tag, the file never holds two
\* rows for that creator or tag, and neither does what an importer sees
\* through its connection.
C33_InternerRace ==
    /\ NoTwoRows(zotero_db)
    /\ \A p \in 1..2 : resolver[p].lock # "none" => NoTwoRows(resolver[p].view)

\* both importers looked for the same new creator before either inserted it;
\* one inserted and committed it, the other was refused the write lock
C33_Witness ==
    /\ \A p \in 1..2 : resolver[p].pc = "done"
    /\ \E p, q \in 1..2 :
          /\ resolver[p].created > 0 /\ resolver[p].raised = "none"
          /\ resolver[q].errors > 0
    /\ Len(zotero_db.creators) = Len(zotero_db0.creators) + 1

\* C34: authors whose (first name, last name) pairs differ are never linked
\* to the same creator id, and no entry of the creator cache stands for two
\* different pairs, also when a name holds the character "|".
C34_CreatorInjective ==
    ~RolledBack =>
       \A p \in 1..Len(run.publications), q \in 1..Len(run.publications) :
          \A i \in 1..Len(run.publications[p].authors),
             j \in 1..Len(run.publications[q].authors) :
             ( \/ run.publications[p].authors[i].prename
                     # run.publications[q].authors[j].prename
               \/ run.publications[p].authors[i].surname
                     # run.publications[q].authors[j].surname )
             => \A a \in CreatorLinked(run.publications[p], i),
                   b \in CreatorLinked(run.publications[q], j) : a # b

\* the loop over the publications has ended and the transaction has not
EndOfLoop == run.pc = "loop" /\ run.idx >= Len(run.publications)

\* C35: at the end of the loop over the publications, stats['items'] is the
\* number of item rows the transaction holds for publications, and the
\* identifiers in item_map are those of the publications counted as imported.
C35_RecordCounter ==
    EndOfLoop
    => /\ stats.items = Cardinality(RecordRows)
       /\ DOMAIN item_map
             = {run.publications[i].uuid :
                  i \in {j \in 1..Len(run.publications) :
                            ~RaisesInFieldPopulation(run.publications[j])}}

\* the attachments whose copy step raised (the entries of lines 691-694)
CopyErrors ==
    Cardinality({i \in 1..Len(stats.errors) :
                    stats.errors[i][1] = "File copy error"})

\* the sum of the two counters an attachment handed to the organizer raises
Handed(s) == s.files_found + s.files_missing

Importing ==
    /\ run.pc \in {"import_collection", "loop", "pdfs", "pdf_loop"}
    /\ sql_log = <<"BEGIN">>

\* every entry of collection_map is the id of a row of the collections table
\* that has the name of a node of that identifier and, as parent, the row the
\* node's parent is mapped to (none for a root)
CollectionCacheSound ==
    \A u \in DOMAIN collection_map :
        /\ collection_map[u] \in 1..Len(zotero_tx.collections)
        /\ \E n \in TreeNodes :
              LET node == collections_data.nodes[n]
                  row == zotero_tx.collections[collection_map[u]]
              IN /\ "uuid" \in node.keys /\ node.uuid = u
                 /\ "name" \in node.keys /\ row.collectionName = node.name
                 /\ \/ n \in RootNodes /\ row.parentCollectionID = 0
                    \/ \E q \in ParentsOf(n) :
                          /\ Mapped(q)
                          /\ row.parentCollectionID
                                = collection_map[collections_data.nodes[q].uuid]

\* every entry of creator_map and of tag_map is the id of a row whose names
\* give the key of the entry
InternCachesSound ==
    /\ \A k \in DOMAIN creator_map :
          /\ creator_map[k] \in 1..Len(zotero_tx.creators)
          /\ creator_key(zotero_tx.creators[creator_map[k]].firstName,
                         zotero_tx.creators[creator_map[k]].lastName) = k
    /\ \A k \in DOMAIN tag_map :
          /\ tag_map[k] \in 1..Len(zotero_tx.tags)
          /\ zotero_tx.tags[tag_map[k]].name = k

\* C37: while the collections and the publications are imported, also after a
\* publication or a collection failed, every id held in collection_map,
\* creator_map and tag_map is the id of a row of the open transaction that
\* has the natural key under which the id is cached.
C37_CachesMatchStore == Importing => (CollectionCacheSound /\ InternCachesSound)

\* a publication has failed after its item row was inserted, and the three
\* caches hold entries
C37_Witness ==
    /\ Importing
    /\ \E i \in 1..Len(stats.errors) : stats.errors[i][1] = "Publication"
    /\ DOMAIN collection_map # {} /\ DOMAIN creator_map # {}
    /\ DOMAIN tag_map # {}

\* the item row is the record of a publication of the run that
\* migrate_publication imported: its extra field embeds the identifier
ImportedRecord(item_id) ==
    /\ item_id \in RecordRows
    /\ \E i \in 1..Len(run.publications) :
          /\ ~RaisesInFieldPopulation(run.publications[i])
          /\ \E value \in ExtraOf(item_id) :
                Embeds(value, run.publications[i].uuid)

\* C38: in a database run migrate_pdfs is entered only for a publication
\* whose record was imported, with that record as parent, and every
\* attachment row the run created has as parent the record of a publication
\* the run imported; a publication whose import failed has no attachment
\* resolved, no file copied and no attachment row.
C38_NoAttachmentsForFailed ==
    (run.pc # "start" /\ ~args.files_only)
    => /\ run.pc \in {"pdfs", "pdf_loop"}
             => /\ ~RaisesInFieldPopulation(run.publications[run.idx + 1])
                /\ ImportedRecord(run.item_id)
       /\ \A a \in zotero_tx.itemAttachments \ zotero_db0.itemAttachments :
             ImportedRecord(a.parentItemID)

\* a committed database run that organized files: the import of one
\* publication failed, another has its attachment
C38_Witness ==
    /\ run.pc = "done" /\ Committed /\ Organizing
    /\ \E i \in 1..Len(run.publications) :
          RaisesInFieldPopulation(run.publications[i])
    /\ zotero_db.itemAttachments # zotero_db0.itemAttachments
    /\ stats.files_found = 1

\* C39: when a database run without --test ends in ROLLBACK because an
\* exception left the loop, every file of the destination tree was there
\* before the run, with the content it had.
C39_TreeFollowsTransaction ==
    ( /\ run.pc = "done" /\ ~args.test_mode /\ ~args.files_only
      /\ RolledBack /\ run.raised # "none" )
    => target_fs = target_fs0

====
